---------------------------- MODULE Spec2Model ----------------------------
(***************************************************************************)
(* Pair-trading bot: the order-pair executor (MT5TradeExecutor) and the    *)
(* hybrid rebalancer (HybridRebalancer: pyramiding ladder + hedge-drift   *)
(* adjustment), the plain ladder rebalancer (PositionRebalancer), and the   *)
(* setup store with its start-up recovery (SetupTracker, SetupRecovery).   *)
(*                                                                         *)
(* Numbers.  Python floats are modelled by exact rationals.  Lot sizes are *)
(* integers counted in units of 0.01 lot; a value that need not be a whole *)
(* number of units is a pair <<n, d>> (n/d, d > 0), and so is a hedge      *)
(* ratio or a percentage.  Z-scores are integers counted in units of       *)
(* 0.005.  Wall-clock time is an integer number of ticks.                  *)
(***************************************************************************)
EXTENDS Integers, Sequences, FiniteSets, TLC

VARIABLES
    \* ---- MT5TradeExecutor and the broker behind it
    volume_multiplier,   \* self.volume_multiplier, a rational <<n, d>>
    symbol_info,         \* mt5.symbol_info per symbol: [known, step, min, max]
    used_tickets,        \* tickets the broker has issued so far
    requests,            \* order_send requests of the last call, in order
    call,                \* arguments of the last place_spread_orders call
    ret,                 \* what that call produced (a return value or an exception)
    spreads,             \* every spread id handed out, with its two tickets
    order_call,          \* the last call, if place_market_order: arguments, result
    \* ---- HybridRebalancer
    cfg,                 \* constructor arguments of the rebalancer
    active_positions,    \* self.active_positions: spread_id -> position data
    last_adjustment,     \* self.last_adjustment: spread_id -> timestamp
    adjustment_history,  \* self.adjustment_history
    now,                 \* time.time()
    last_call,           \* the last call on the rebalancer: arguments and result
    \* ---- PositionRebalancer
    rb_cfg,              \* its constructor arguments
    rb_active_positions, \* its self.active_positions
    rb_last_call,        \* the last call on it: arguments and result
    \* ---- SetupTracker, SetupRecovery and the broker's position list
    wall_clock,          \* datetime.now(), in ticks of half a second
    active_setups,       \* tracker.active_setups: setup_id -> Setup
    setups_file,         \* positions/setups.json, the index of active setups
    setup_files,         \* positions/<setup_id>.json: setup_id -> record
    mt5_positions,       \* tickets of the positions open at the broker
    setup_call,          \* the last call on tracker or recovery: arguments, result
    \* ---- TradingSystem: worker threads, queues, lock
    running,             \* self.running
    data_queue,          \* self.data_queue
    signal_queue,        \* self.signal_queue
    lock,                \* the thread inside "with self.lock", or "none"
    pc,                  \* where each worker thread stands
    pending,             \* requests the signal thread has still to queue in this pass
    ticks_left,          \* snapshots the market feed will still deliver
    current_snapshot,    \* self.current_snapshot is not None
    broker_orders,       \* orders of the execution thread filled at the broker
    setup_updates,       \* updates of the data model the execution thread applied
    raised,              \* threads in which an iteration raised an exception
    warnings,            \* what logger.warning was called with about the queues
    placed               \* the calls of place_spread_orders the execution thread made

exec_vars == <<volume_multiplier, symbol_info, used_tickets, requests, call, ret, spreads,
               order_call>>
rebal_vars == <<cfg, active_positions, last_adjustment, adjustment_history, now,
                last_call>>
rb_vars == <<rb_cfg, rb_active_positions, rb_last_call>>
setup_vars == <<wall_clock, active_setups, setups_file, setup_files, mt5_positions,
                setup_call>>
thread_vars == <<running, data_queue, signal_queue, lock, pc, pending, ticks_left,
                 current_snapshot, broker_orders, setup_updates, raised, warnings,
                 placed>>
vars == <<exec_vars, rebal_vars, rb_vars, setup_vars, thread_vars>>

Abs(x) == IF x < 0 THEN -x ELSE x
Min(a, b) == IF a < b THEN a ELSE b
Max(a, b) == IF a > b THEN a ELSE b

\* Python's round(n/d) for d > 0: nearest integer, ties to the even one.
Round(n, d) ==
    LET q == n \div d
        r == n % d
    IN  IF 2 * r < d THEN q
        ELSE IF 2 * r > d THEN q + 1
        ELSE IF q % 2 = 0 THEN q ELSE q + 1

-----------------------------------------------------------------------------
(***************************************************************************)
(* MT5TradeExecutor.place_spread_orders                                    *)
(***************************************************************************)

PRIMARY == "XAUUSD"
SECONDARY == "XAGUSD"
Symbols == {PRIMARY, SECONDARY}

\* Bounded inputs.
\* (gold_volume, silver_volume) of a call
VolumePairs == {<<1, 10>>, <<3, 4>>, <<2, 3>>, <<0, 2>>}
Sides == {"LONG", "short", "FLAT"}
Multipliers == {<<1, 1>>, <<3, 2>>}
\* mt5.symbol_info(symbol): None (known = FALSE) or the instrument's volume limits.
UnknownSymbol == [known |-> FALSE, step |-> 1, min |-> 0, max |-> 0]
InstrumentSpecs == {[known |-> TRUE, step |-> 1, min |-> 1, max |-> 20],
                    [known |-> TRUE, step |-> 2, min |-> 2, max |-> 6]}
Tickets == {1, 2, 11, 12}
\* What the broker does with one order: the symbol cannot be selected, order_send
\* returns None, the order is rejected, the order is filled.
BrokerOutcomes == {"select_failed", "null", "rejected", "done"}

\* A TradeResult's order_ticket = None, and a spread_id = None.
NoTicket == 0
NoSpreadId == <<>>

\* str.upper() on the side strings used here.
Upper(side) == IF side = "short" THEN "SHORT" ELSE side

\* round(volume / step) * step, then max(min_lot, min(max_lot, .)); round(volume, 2)
\* when the instrument is unknown.  volume is n/d units.
Quantize(n, d, info) ==
    IF ~info.known THEN Round(n, d)
    ELSE Max(info.min, Min(info.max, Round(n, d * info.step) * info.step))

\* str(n) for a natural number: its decimal digits, as a sequence of characters.
DigitChar(d) == <<"0", "1", "2", "3", "4", "5", "6", "7", "8", "9">>[d + 1]
RECURSIVE Digits(_)
Digits(n) == IF n < 10 THEN <<DigitChar(n)>>
             ELSE Digits(n \div 10) \o <<DigitChar(n % 10)>>

\* f"{gold_result.order_ticket}-{silver_result.order_ticket}"
SpreadIdNoSeparator(gt, st) == Digits(gt) \o Digits(st)
SpreadId(gt, st) == Digits(gt) \o <<"-">> \o Digits(st)

\* hedge_ratio = silver_volume / gold_volume if gold_volume > 0 else 1.0
\* (both volumes already scaled by the multiplier m = <<mn, md>>).
HedgeRatioOf(g, s, m) ==
    IF g * m[1] > 0 THEN <<s * m[1] * m[2], g * m[1] * m[2]>> ELSE <<1, 1>>

\* silver_from_hedge = gold_adjusted * hedge_ratio
SilverIndependent(gold_adjusted, hedge_ratio, silver_volume) == silver_volume
SilverFromHedge(gold_adjusted, hedge_ratio, silver_volume) ==
    <<gold_adjusted * hedge_ratio[1], hedge_ratio[2]>>

FailedResult(comment) ==
    [success |-> FALSE, order_ticket |-> NoTicket, volume |-> 0, comment |-> comment]

\* _place_order_no_adjustment: the TradeResult, and the order_send request if one
\* was made.
PlaceOrderNoAdjustment(symbol, order_type, volume, outcome, ticket) ==
    IF ~symbol_info[symbol].known
    THEN [result |-> FailedResult("Symbol not found"), sent |-> <<>>]
    ELSE IF outcome = "select_failed"
    THEN [result |-> FailedResult("Failed to select"), sent |-> <<>>]
    ELSE LET req == [symbol |-> symbol, type |-> order_type, volume |-> volume,
                     outcome |-> outcome]
         IN  IF outcome = "null"
             THEN [result |-> FailedResult("order_send returned None"), sent |-> <<req>>]
             ELSE IF outcome = "rejected"
             THEN [result |-> FailedResult("retcode"), sent |-> <<req>>]
             ELSE [result |-> [success |-> TRUE, order_ticket |-> ticket,
                               volume |-> volume, comment |-> "Success"],
                   sent |-> <<req>>]

\* "if not gold_result.success: return ...": the secondary order is attempted only
\* past this test.
AlwaysAttempt(gold_result) == TRUE
SecondaryAttempted(gold_result) == gold_result.success

\* The whole of place_spread_orders on (gold_volume, silver_volume, side), the
\* broker answering op / os to the two orders and issuing tickets tp / ts.
\* Yields [ret, sent]: ret.kind is "return" or "raise".
SpreadCall(g, s, side, op, os, tp, ts) ==
    IF Upper(side) \notin {"LONG", "SHORT"}
    THEN [ret |-> [kind |-> "raise", exc |-> "ValueError"], sent |-> <<>>]
    ELSE
    LET gold_type == IF Upper(side) = "LONG" THEN "BUY" ELSE "SELL"
        silver_type == IF Upper(side) = "LONG" THEN "SELL" ELSE "BUY"
        m == volume_multiplier
        hedge_ratio == HedgeRatioOf(g, s, m)
        gold_adjusted == Quantize(g * m[1], m[2], symbol_info[PRIMARY])
        sfh == SilverFromHedge(gold_adjusted, hedge_ratio, <<s * m[1], m[2]>>)
        silver_adjusted == Quantize(sfh[1], sfh[2], symbol_info[SECONDARY])
        gold == PlaceOrderNoAdjustment(PRIMARY, gold_type, gold_adjusted, op, tp)
    IN  IF ~SecondaryAttempted(gold.result)
        THEN \* "return ((gold_result, TradeResult(...)), spread_id)": spread_id is a
             \* local that is assigned only further down, so evaluating it raises.
             [ret |-> [kind |-> "raise", exc |-> "UnboundLocalError"],
              sent |-> gold.sent]
        ELSE
        LET silver == PlaceOrderNoAdjustment(SECONDARY, silver_type, silver_adjusted,
                                             os, ts)
        IN  IF ~gold.result.success \/ ~silver.result.success
            THEN [ret |-> [kind |-> "return", gold_result |-> gold.result,
                           silver_result |-> silver.result, spread_id |-> NoSpreadId],
                  sent |-> gold.sent \o silver.sent]
            ELSE [ret |-> [kind |-> "return", gold_result |-> gold.result,
                           silver_result |-> silver.result,
                           spread_id |-> SpreadId(gold.result.order_ticket,
                                                  silver.result.order_ticket)],
                  sent |-> gold.sent \o silver.sent]

PlaceSpreadOrders(g, s, side, op, os, tp, ts) ==
    LET r == SpreadCall(g, s, side, op, os, tp, ts)
        filled == {r.sent[i].symbol : i \in {j \in DOMAIN r.sent : r.sent[j].outcome = "done"}}
    IN  /\ call' = [made |-> TRUE, gold_volume |-> g, silver_volume |-> s, side |-> side]
        /\ ret' = r.ret
        /\ requests' = r.sent
        /\ used_tickets' = used_tickets
               \cup (IF PRIMARY \in filled THEN {tp} ELSE {})
               \cup (IF SECONDARY \in filled THEN {ts} ELSE {})
        /\ spreads' = IF r.ret.kind = "return" /\ r.ret.spread_id # NoSpreadId
                      THEN spreads \cup {[gold_ticket |-> tp, silver_ticket |-> ts,
                                          spread_id |-> r.ret.spread_id]}
                      ELSE spreads
        /\ order_call' = [op |-> "none"]
        /\ UNCHANGED <<volume_multiplier, symbol_info>>

NoCall == [made |-> FALSE, gold_volume |-> 0, silver_volume |-> 0, side |-> "LONG"]

\* ---- place_market_order
\* str.upper() on the order types used here.
UpperType(order_type) == IF order_type = "buy" THEN "BUY" ELSE order_type

\* "VALIDATE AND ROUND VOLUME": round(volume / volume_step) * volume_step, then
\* "if volume < volume_min: volume = volume_min / elif volume > volume_max:
\* volume = volume_max".  volume is n/d units.
RoundToStep(n, d, info) == Round(n, d * info.step) * info.step
AdjustVolume(n, d, info) ==
    LET volume == RoundToStep(n, d, info)
    IN  IF volume < info.min THEN info.min
        ELSE IF volume > info.max THEN info.max
        ELSE volume

\* The whole of place_market_order on (symbol, order_type, volume = v[1]/v[2]), the
\* broker answering outcome and issuing ticket: the TradeResult, and the
\* order_send request if one was made.
\* place_market_order sending an order for each leg of the pair.
MarketOrderBothLegs(symbol, order_type, v, outcome, ticket) ==
    LET req(sym) == [symbol |-> sym, type |-> "BUY", volume |-> v[1], outcome |-> outcome]
    IN  [result |-> [success |-> outcome = "done", order_ticket |-> ticket,
                     volume |-> v[1], comment |-> "spread"],
         sent |-> <<req(PRIMARY), req(SECONDARY)>>]
MarketOrderCall(symbol, order_type, v, outcome, ticket) ==
    IF ~symbol_info[symbol].known
    THEN [result |-> FailedResult("Symbol not found"), sent |-> <<>>]
    ELSE IF outcome = "select_failed"
    THEN [result |-> FailedResult("Failed to select"), sent |-> <<>>]
    ELSE LET volume == AdjustVolume(v[1], v[2], symbol_info[symbol])
             req == [symbol |-> symbol,
                     type |-> IF UpperType(order_type) = "BUY" THEN "BUY" ELSE "SELL",
                     volume |-> volume, outcome |-> outcome]
         IN  IF outcome = "null"
             THEN [result |-> [success |-> FALSE, order_ticket |-> NoTicket,
                               volume |-> volume,
                               comment |-> "order_send returned None"],
                   sent |-> <<req>>]
             ELSE IF outcome = "rejected"
             THEN [result |-> [success |-> FALSE, order_ticket |-> ticket,
                               volume |-> volume, comment |-> "retcode"],
                   sent |-> <<req>>]
             ELSE [result |-> [success |-> TRUE, order_ticket |-> ticket,
                               volume |-> volume,
                               comment |-> "Order executed successfully"],
                   sent |-> <<req>>]

PlaceMarketOrder(symbol, order_type, v, outcome, ticket) ==
    LET r == MarketOrderCall(symbol, order_type, v, outcome, ticket)
    IN  /\ order_call' = [op |-> "place_market_order", symbol |-> symbol,
                          order_type |-> order_type, volume |-> v,
                          result |-> r.result]
        /\ requests' = r.sent
        /\ used_tickets' = used_tickets
               \cup (IF r.result.success THEN {ticket} ELSE {})
        /\ call' = NoCall
        /\ ret' = [kind |-> "none"]
        /\ UNCHANGED <<volume_multiplier, symbol_info, spreads>>


ExecInit ==
    /\ volume_multiplier \in Multipliers
    /\ symbol_info \in [Symbols -> InstrumentSpecs \cup {UnknownSymbol}]
    /\ used_tickets = {}
    /\ requests = <<>>
    /\ call = NoCall
    /\ ret = [kind |-> "none"]
    /\ spreads = {}
    /\ order_call = [op |-> "none"]

\* The executor as constructed in main_indices_cli.py when it is not under study.
ExecIdle ==
    /\ volume_multiplier = <<1, 1>>
    /\ symbol_info = [sym \in Symbols |-> [known |-> TRUE, step |-> 1, min |-> 1, max |-> 20]]
    /\ used_tickets = {}
    /\ requests = <<>>
    /\ call = NoCall
    /\ ret = [kind |-> "none"]
    /\ spreads = {}
    /\ order_call = [op |-> "none"]

\* The tickets the broker may issue for a call whose orders it answers op / os:
\* a fresh ticket for each order it fills.
\* (MT5 numbers its tickets in increasing order.)
FreshTickets(outcome, taken) ==
    IF outcome = "done"
    THEN {t \in Tickets \ taken : \A u \in Tickets \ taken : t <= u}
    ELSE {NoTicket}

-----------------------------------------------------------------------------
(***************************************************************************)
(* Rationals <<n, d>>, d # 0.                                              *)
(***************************************************************************)

RECURSIVE GCD(_, _)
GCD(a, b) == IF b = 0 THEN Abs(a) ELSE GCD(b, a % Abs(b))
RatNorm(q) == IF q[2] < 0 THEN <<-q[1], -q[2]>> ELSE q
RatGeq(a, b) == RatNorm(a)[1] * RatNorm(b)[2] >= RatNorm(b)[1] * RatNorm(a)[2]
RatEq(a, b) == RatNorm(a)[1] * RatNorm(b)[2] = RatNorm(b)[1] * RatNorm(a)[2]
RatSign(q) == IF RatNorm(q)[1] > 0 THEN 1 ELSE IF RatNorm(q)[1] < 0 THEN -1 ELSE 0
RatAbs(q) == <<Abs(q[1]), Abs(q[2])>>
RatReduce(q) ==
    LET n == RatNorm(q)  g == GCD(Abs(n[1]), n[2])
    IN  IF g = 0 THEN n ELSE <<n[1] \div g, n[2] \div g>>
RatSub(a, b) == <<a[1] * b[2] - b[1] * a[2], a[2] * b[2]>>
RatMul(a, b) == <<a[1] * b[1], a[2] * b[2]>>
\* a / b, common factors cancelled before multiplying
RatDiv(a, b) ==
    LET gn == Max(1, GCD(a[1], b[1]))
        gd == Max(1, GCD(a[2], b[2]))
    IN  RatNorm(<<(a[1] \div gn) * (b[2] \div gd), (a[2] \div gd) * (b[1] \div gn)>>)

-----------------------------------------------------------------------------
(***************************************************************************)
(* HybridRebalancer                                                        *)
(***************************************************************************)

\* 'last_adjustment_time': None
NoTime == -1
\* abs(level.zscore - zscore) < 0.01, in z units of 0.005
ZTolerance == 2

SpreadIds == {"s1", "s2"}
RSides == {"LONG", "SHORT"}

\* Bounds of the rebalancer model.
MaxTime == 3
MaxAdjustments == 1
MaxExecuted == 3

\* One RebalanceLevel.
Level(z, executed) ==
    [zscore |-> z, executed |-> executed, timestamp |-> NoTime,
     gold_lots |-> 0, silver_lots |-> 0]

\* A loop that also takes a level lying on the stop itself.
RECURSIVE LadderUpToStop(_, _, _)
LadderUpToStop(current_z, initial_zscore, step) ==
    IF Abs(current_z) <= cfg.max_zscore
    THEN <<Level(current_z, current_z = initial_zscore)>>
             \o LadderUpToStop(current_z + step, initial_zscore, step)
    ELSE <<>>

\* The while loop of calculate_pyramiding_levels: step is -scale_interval (LONG)
\* or +scale_interval (SHORT).
RECURSIVE LadderFrom(_, _, _)
LadderFrom(current_z, initial_zscore, step) ==
    IF Abs(current_z) < cfg.max_zscore
    THEN <<Level(current_z, current_z = initial_zscore)>>
             \o LadderFrom(current_z + step, initial_zscore, step)
    ELSE <<>>

\* calculate_pyramiding_levels
CalculatePyramidingLevels(initial_zscore, side) ==
    IF side = "LONG"
    THEN LadderFrom(initial_zscore, initial_zscore, -cfg.scale_interval)
             \o <<Level(-cfg.max_zscore, FALSE)>>
    ELSE LadderFrom(initial_zscore, initial_zscore, cfg.scale_interval)
             \o <<Level(cfg.max_zscore, FALSE)>>

\* The position_data of register_position.
PositionData(spread_id, side, entry_zscore, entry_hedge_ratio, gold_lots, silver_lots, total_position_size) ==
    LET levels == CalculatePyramidingLevels(entry_zscore, side)
        first == [levels[1] EXCEPT !.executed = TRUE, !.timestamp = now,
                                   !.gold_lots = gold_lots, !.silver_lots = silver_lots]
    IN  [spread_id |-> spread_id,
         side |-> side,
         entry_zscore |-> entry_zscore,
         entry_hedge_ratio |-> entry_hedge_ratio,
         current_hedge_ratio |-> entry_hedge_ratio,
         gold_lots |-> gold_lots,
         silver_lots |-> silver_lots,
         total_position_size |-> total_position_size,
         size_per_level |-> <<total_position_size, Len(levels)>>,
         levels |-> [levels EXCEPT ![1] = first],
         total_executed |-> 1,
         entry_time |-> now,
         last_adjustment_time |-> NoTime,
         primary_symbol |-> PRIMARY,
         secondary_symbol |-> SECONDARY]

\* {}
EmptyDict == [k \in {} |-> 0]
\* dict[key] = value
Put(dict, key, value) ==
    [k \in DOMAIN dict \cup {key} |-> IF k = key THEN value ELSE dict[k]]
\* del dict[key], if present
Del(dict, key) == [k \in DOMAIN dict \ {key} |-> dict[k]]


\* self.last_adjustment after register_position(spread_id, ...)
ClockAtRegister(spread_id) == Put(last_adjustment, spread_id, now)

RegisterPosition(spread_id, side, entry_zscore, entry_hedge_ratio, gold_lots, silver_lots) ==
    /\ active_positions' = Put(active_positions, spread_id,
           PositionData(spread_id, side, entry_zscore, entry_hedge_ratio, gold_lots,
                        silver_lots, 1))
    /\ last_adjustment' = ClockAtRegister(spread_id)
    /\ last_call' = ([op |-> "register_position", spread_id |-> spread_id,
                        time |-> now])
    /\ UNCHANGED <<cfg, adjustment_history, now>>

\* check_pyramiding: the level returned (its index in the ladder), 0 for None.
Triggers(side, level, current_zscore) ==
    IF side = "LONG" THEN current_zscore <= level.zscore
    ELSE current_zscore >= level.zscore

SetMin(S) == CHOOSE x \in S : \A y \in S : x <= y
SetMax(S) == CHOOSE x \in S : \A y \in S : x >= y

DeepestTriggered(levels, side, current_zscore) ==
    LET hit == {i \in DOMAIN levels :
                   ~levels[i].executed /\ Triggers(side, levels[i], current_zscore)}
    IN  IF hit = {} THEN 0 ELSE SetMax(hit)
FirstTriggered(levels, side, current_zscore) ==
    LET hit == {i \in DOMAIN levels :
                   ~levels[i].executed /\ Triggers(side, levels[i], current_zscore)}
    IN  IF hit = {} THEN 0 ELSE SetMin(hit)

CheckPyramidingResult(spread_id, current_zscore) ==
    IF spread_id \notin DOMAIN active_positions
    THEN [type |-> "None", index |-> 0]
    ELSE LET position == active_positions[spread_id]
             i == FirstTriggered(position.levels, position.side, current_zscore)
         IN  IF i = 0 THEN [type |-> "None", index |-> 0]
             ELSE [type |-> "PYRAMIDING", spread_id |-> spread_id,
                   side |-> position.side, index |-> i, level |-> position.levels[i],
                   position_size |-> position.size_per_level,
                   current_zscore |-> current_zscore]

\* A check that takes the level it returns off the ladder's open levels.
CheckPyramidingAndMark(spread_id, current_zscore) ==
    \E result \in {CheckPyramidingResult(spread_id, current_zscore)} :
        /\ last_call' = ([op |-> "check_pyramiding", spread_id |-> spread_id,
                            current_zscore |-> current_zscore, time |-> now,
                            result |-> result])
        /\ active_positions' =
               IF result.type = "None" THEN active_positions
               ELSE [active_positions EXCEPT
                        ![spread_id].levels[result.index].executed = TRUE]
        /\ UNCHANGED <<cfg, last_adjustment, adjustment_history, now>>
CheckPyramiding(spread_id, current_zscore) ==
    /\ last_call' = ([op |-> "check_pyramiding", spread_id |-> spread_id,
                        current_zscore |-> current_zscore, time |-> now,
                        result |-> CheckPyramidingResult(spread_id, current_zscore)])
    /\ UNCHANGED <<cfg, active_positions, last_adjustment, adjustment_history, now>>

\* check_hedge_drift -------------------------------------------------------

NoAdjustment == [action |-> "None"]

\* "time_since_last < self.min_adjustment_interval", with
\* last_adj = self.last_adjustment.get(spread_id, 0)
LastAdj(spread_id) ==
    IF spread_id \in DOMAIN last_adjustment THEN last_adjustment[spread_id] ELSE 0
TooSoon(spread_id, t) == t - LastAdj(spread_id) < cfg.min_adjustment_interval

\* target_secondary_lots = primary_lots * current_hedge_ratio
TargetSecondary(position, current_hedge_ratio) ==
    <<position.gold_lots * current_hedge_ratio[1], current_hedge_ratio[2]>>
\* drift = target_secondary_lots - secondary_lots
Drift(position, current_hedge_ratio) ==
    RatSub(TargetSecondary(position, current_hedge_ratio), <<position.silver_lots, 1>>)
\* drift_pct = abs(drift) / target_secondary_lots
DriftPct(position, current_hedge_ratio) ==
    RatDiv(RatAbs(Drift(position, current_hedge_ratio)),
           TargetSecondary(position, current_hedge_ratio))

\* "if not percentage_exceeded and not absolute_exceeded: return None"
BothThresholds(drift_pct, abs_drift) ==
    /\ RatGeq(drift_pct, cfg.hedge_drift_threshold)
    /\ RatGeq(abs_drift, cfg.min_absolute_drift)
DualThreshold(drift_pct, abs_drift) ==
    \/ RatGeq(drift_pct, cfg.hedge_drift_threshold)
    \/ RatGeq(abs_drift, cfg.min_absolute_drift)

\* "Determine which side to adjust": symbol, action and quantity.
SellExcess(position, drift, current_hedge_ratio) ==
    IF RatSign(drift) > 0
    THEN [symbol |-> position.secondary_symbol, action |-> "BUY",
          quantity |-> RatAbs(drift)]
    ELSE [symbol |-> position.secondary_symbol, action |-> "SELL",
          quantity |-> RatAbs(drift)]
SideToAdjust(position, drift, current_hedge_ratio) ==
    IF RatSign(drift) > 0
    THEN [symbol |-> position.secondary_symbol, action |-> "BUY",
          quantity |-> RatAbs(drift)]
    ELSE [symbol |-> position.primary_symbol, action |-> "BUY",
          quantity |-> RatDiv(RatAbs(drift), current_hedge_ratio)]

\* A check that goes on to the thresholds whatever the target is.
CheckHedgeDriftAnyTarget(spread_id, current_hedge_ratio) ==
    IF ~cfg.enable_hedge_adjustment THEN NoAdjustment
    ELSE IF spread_id \notin DOMAIN active_positions THEN NoAdjustment
    ELSE IF TooSoon(spread_id, now) THEN NoAdjustment
    ELSE
    LET position == active_positions[spread_id]
        drift == Drift(position, current_hedge_ratio)
        drift_pct == <<Abs(drift[1]), 1>>
    IN  IF ~DualThreshold(drift_pct, RatAbs(drift)) THEN NoAdjustment
        ELSE [spread_id |-> spread_id,
              symbol |-> position.secondary_symbol,
              action |-> "BUY",
              quantity |-> RatAbs(drift),
              old_hedge |-> position.current_hedge_ratio,
              new_hedge |-> current_hedge_ratio,
              drift_pct |-> drift_pct]

CheckHedgeDriftResult(spread_id, current_hedge_ratio) ==
    IF ~cfg.enable_hedge_adjustment THEN NoAdjustment
    ELSE IF spread_id \notin DOMAIN active_positions THEN NoAdjustment
    ELSE IF TooSoon(spread_id, now) THEN NoAdjustment
    ELSE
    LET position == active_positions[spread_id]
        target == TargetSecondary(position, current_hedge_ratio)
    IN  IF target[1] = 0 THEN NoAdjustment
        ELSE
        LET drift == Drift(position, current_hedge_ratio)
            drift_pct == DriftPct(position, current_hedge_ratio)
        IN  IF ~DualThreshold(drift_pct, RatAbs(drift)) THEN NoAdjustment
            ELSE
            LET adj == SideToAdjust(position, drift, current_hedge_ratio)
            IN  [spread_id |-> spread_id,
                 symbol |-> adj.symbol,
                 action |-> adj.action,
                 quantity |-> adj.quantity,
                 old_hedge |-> position.current_hedge_ratio,
                 new_hedge |-> current_hedge_ratio,
                 drift_pct |-> drift_pct]

\* check_hedge_drift
CheckHedgeDrift(spread_id, current_hedge_ratio) ==
    LET result == CheckHedgeDriftResult(spread_id, current_hedge_ratio)
        \* the previous check_hedge_drift on this spread, when it returned an
        \* adjustment and nothing but the execution of that adjustment happened
        \* since: its time, and whether the adjustment was executed and marked
        prev == IF /\ last_call.op = "check_hedge_drift"
                   /\ last_call.spread_id = spread_id
                   /\ last_call.result # NoAdjustment
                THEN [time |-> last_call.time, executed |-> FALSE]
                ELSE IF /\ last_call.op = "mark_hedge_adjusted"
                        /\ last_call.spread_id = spread_id
                THEN [time |-> last_call.check_time, executed |-> last_call.applied]
                ELSE [time |-> NoTime, executed |-> FALSE]
    IN  /\ last_call' = [op |-> "check_hedge_drift", spread_id |-> spread_id,
                         current_hedge_ratio |-> current_hedge_ratio,
                         time |-> now, result |-> result,
                         prev_time |-> prev.time, prev_executed |-> prev.executed]
        /\ UNCHANGED <<cfg, active_positions, last_adjustment, adjustment_history, now>>

\* mark_pyramiding_executed ------------------------------------------------

\* The last level within the tolerance instead of the first.
LastMatch(levels, zscore) ==
    LET hit == {i \in DOMAIN levels :
                   Abs(levels[i].zscore - zscore) < ZTolerance}
    IN  IF hit = {} THEN 0 ELSE SetMax(hit)
\* "for level in position['levels']: if abs(level.zscore - zscore) < 0.01: ...
\* break": the index of the level marked, 0 for none.
FirstMatch(levels, zscore) ==
    LET hit == {i \in DOMAIN levels :
                   Abs(levels[i].zscore - zscore) < ZTolerance}
    IN  IF hit = {} THEN 0 ELSE SetMin(hit)

MarkPyramidingExecuted(spread_id, zscore, gold_lots, silver_lots) ==
    /\ last_call' = ([op |-> "mark_pyramiding_executed", spread_id |-> spread_id,
                        zscore |-> zscore, gold_lots |-> gold_lots,
                        silver_lots |-> silver_lots, time |-> now])
    /\ IF spread_id \notin DOMAIN active_positions
       THEN UNCHANGED active_positions
       ELSE LET position == active_positions[spread_id]
                i == FirstMatch(position.levels, zscore)
                levels == IF i = 0 THEN position.levels
                          ELSE [position.levels EXCEPT ![i] =
                                   [@ EXCEPT !.executed = TRUE, !.timestamp = now,
                                             !.gold_lots = gold_lots,
                                             !.silver_lots = silver_lots]]
            IN  active_positions' = [active_positions EXCEPT ![spread_id] =
                    [position EXCEPT !.levels = levels,
                                     !.gold_lots = @ + gold_lots,
                                     !.silver_lots = @ + silver_lots,
                                     !.total_executed = @ + 1]]
    /\ UNCHANGED <<cfg, last_adjustment, adjustment_history, now>>

\* mark_hedge_adjusted -----------------------------------------------------

\* "Update position": the leg lots after the adjustment.
UpdateLots(position, adjustment, executed_quantity) ==
    IF adjustment.action = "BUY"
    THEN [position EXCEPT !.silver_lots = @ + executed_quantity]
    ELSE [position EXCEPT !.silver_lots = @ - executed_quantity]

\* "self.last_adjustment[spread_id] = time.time()"
ClockUntouched(spread_id) == last_adjustment
ClockForAll(spread_id) == [k \in DOMAIN last_adjustment \cup {spread_id} |-> now]
ClockAtAdjustment(spread_id) == Put(last_adjustment, spread_id, now)

MarkHedgeAdjusted(spread_id, adjustment, executed_quantity) ==
    LET \* when the adjustment was returned, if by the call just before
        check_time == IF last_call.op = "check_hedge_drift" THEN last_call.time
                      ELSE NoTime
    IN
    /\ IF spread_id \notin DOMAIN active_positions
       THEN /\ last_call' = ([op |-> "mark_hedge_adjusted", spread_id |-> spread_id,
                                adjustment |-> adjustment,
                                executed_quantity |-> executed_quantity,
                                time |-> now, check_time |-> check_time,
                                applied |-> FALSE])
            /\ UNCHANGED <<active_positions, last_adjustment, adjustment_history>>
       ELSE LET position == active_positions[spread_id]
                updated == UpdateLots(position, adjustment, executed_quantity)
            IN  /\ last_call' = ([op |-> "mark_hedge_adjusted",
                                    spread_id |-> spread_id,
                                    adjustment |-> adjustment,
                                    executed_quantity |-> executed_quantity,
                                    time |-> now, check_time |-> check_time,
                                    applied |-> TRUE,
                                    before |-> position])
                /\ active_positions' = [active_positions EXCEPT ![spread_id] =
                       [updated EXCEPT !.current_hedge_ratio = adjustment.new_hedge,
                                       !.last_adjustment_time = now]]
                /\ last_adjustment' = ClockAtAdjustment(spread_id)
                /\ adjustment_history' = Append(adjustment_history, adjustment)
    /\ UNCHANGED <<cfg, now>>

\* remove_position ---------------------------------------------------------

RemovePosition(spread_id) ==
    /\ active_positions' = Del(active_positions, spread_id)
    /\ last_adjustment' = Del(last_adjustment, spread_id)
    /\ last_call' = ([op |-> "remove_position", spread_id |-> spread_id,
                        time |-> now])
    /\ UNCHANGED <<cfg, adjustment_history, now>>

\* time.time() advances.
Tick ==
    /\ now < MaxTime
    /\ now' = now + 1
    /\ UNCHANGED <<cfg, active_positions, last_adjustment, adjustment_history,
                   last_call>>

-----------------------------------------------------------------------------
(***************************************************************************)
(* PositionRebalancer                                                      *)
(***************************************************************************)

\* The while loop of calculate_rebalance_levels.
RECURSIVE RebalanceLadderFrom(_, _, _)
RebalanceLadderFrom(current_z, initial_zscore, step) ==
    IF Abs(current_z) < rb_cfg.max_zscore
    THEN <<Level(current_z, current_z = initial_zscore)>>
             \o RebalanceLadderFrom(current_z + step, initial_zscore, step)
    ELSE <<>>

\* calculate_rebalance_levels
CalculateRebalanceLevels(initial_zscore, side) ==
    IF side = "LONG"
    THEN RebalanceLadderFrom(initial_zscore, initial_zscore, -rb_cfg.scale_interval)
             \o <<Level(-rb_cfg.max_zscore, FALSE)>>
    ELSE RebalanceLadderFrom(initial_zscore, initial_zscore, rb_cfg.scale_interval)
             \o <<Level(rb_cfg.max_zscore, FALSE)>>

\* register_position; total_position_size is a rational.
RebalanceRegisterPosition(spread_id, side, entry_zscore, total_position_size) ==
    LET levels == CalculateRebalanceLevels(entry_zscore, side)
        size_per_level == RatReduce(RatDiv(total_position_size, <<Len(levels), 1>>))
        first == [levels[1] EXCEPT !.executed = TRUE, !.timestamp = now]
        position_data ==
            [spread_id |-> spread_id,
             side |-> side,
             entry_zscore |-> entry_zscore,
             total_position_size |-> total_position_size,
             size_per_level |-> size_per_level,
             levels |-> [levels EXCEPT ![1] = first],
             total_executed |-> 1,
             remaining_size |-> RatReduce(RatSub(total_position_size, size_per_level))]
    IN  /\ rb_active_positions' = Put(rb_active_positions, spread_id, position_data)
        /\ rb_last_call' = [op |-> "register_position", spread_id |-> spread_id]
        /\ UNCHANGED rb_cfg

\* check_rebalance_needed: the for loop over the ladder (0 when it finds nothing).
NextToTrigger(levels, side, current_zscore) ==
    LET hit == {i \in DOMAIN levels :
                   ~levels[i].executed /\ Triggers(side, levels[i], current_zscore)}
    IN  IF hit = {} THEN 0 ELSE SetMin(hit)

CheckRebalanceNeededResult(spread_id, current_zscore) ==
    IF spread_id \notin DOMAIN rb_active_positions
    THEN [type |-> "None"]
    ELSE LET position == rb_active_positions[spread_id]
             i == NextToTrigger(position.levels, position.side, current_zscore)
         IN  IF i = 0 THEN [type |-> "None"]
             ELSE [type |-> "REBALANCE", spread_id |-> spread_id,
                   side |-> position.side, level |-> position.levels[i],
                   position_size |-> position.size_per_level,
                   current_zscore |-> current_zscore]

CheckRebalanceNeeded(spread_id, current_zscore) ==
    /\ rb_last_call' = [op |-> "check_rebalance_needed", spread_id |-> spread_id,
                        current_zscore |-> current_zscore,
                        result |-> CheckRebalanceNeededResult(spread_id, current_zscore)]
    /\ UNCHANGED <<rb_cfg, rb_active_positions>>

\* mark_level_executed
MarkLevelExecuted(spread_id, zscore, gold_lots, silver_lots) ==
    /\ rb_last_call' = [op |-> "mark_level_executed", spread_id |-> spread_id,
                        zscore |-> zscore, gold_lots |-> gold_lots,
                        silver_lots |-> silver_lots]
    /\ IF spread_id \notin DOMAIN rb_active_positions
       THEN UNCHANGED rb_active_positions
       ELSE LET position == rb_active_positions[spread_id]
                i == FirstMatch(position.levels, zscore)
            IN  IF i = 0 THEN UNCHANGED rb_active_positions
                ELSE rb_active_positions' = [rb_active_positions EXCEPT ![spread_id] =
                         [position EXCEPT
                             !.levels[i] = [@ EXCEPT !.executed = TRUE,
                                                     !.timestamp = now,
                                                     !.gold_lots = gold_lots,
                                                     !.silver_lots = silver_lots],
                             !.total_executed = @ + 1,
                             !.remaining_size =
                                 RatReduce(RatSub(@, position.size_per_level))]]
    /\ UNCHANGED rb_cfg

\* remove_position
RebalanceRemovePosition(spread_id) ==
    /\ rb_active_positions' = Del(rb_active_positions, spread_id)
    /\ rb_last_call' = [op |-> "remove_position", spread_id |-> spread_id]
    /\ UNCHANGED rb_cfg

-----------------------------------------------------------------------------
(***************************************************************************)
(* SetupTracker: the setups, in memory and on disk.  A setup id is the     *)
(* second of its creation; the three places a setup lives in - the         *)
(* in-memory dict, the index file and the per-setup files - are handled    *)
(* together as a store record [active, index, files].  The last_updated    *)
(* stamps and a leg's timestamp are written and read back but decide       *)
(* nothing; they are left out of the records.                              *)
(***************************************************************************)

TicksPerSecond == 2
\* exit_zscore = None
NoExitZScore == 99999

\* f"setup_{datetime.now().strftime('%Y%m%d_%H%M%S')}": the time cut to the second.
SetupId(t) == t \div TicksPerSecond

\* Setup.to_dict / json.dump
ToDict(setup) ==
    [setup_id |-> setup.setup_id,
     entry_time |-> setup.entry_time,
     entry_zscore |-> setup.entry_zscore,
     exit_zscore |-> setup.exit_zscore,
     side |-> setup.side,
     pair |-> setup.pair,
     entry_hedge_ratio |-> setup.entry_hedge_ratio,
     positions |-> setup.positions,
     status |-> setup.status]

\* json.load / Setup.from_dict
FromDict(data) ==
    [setup_id |-> data.setup_id,
     entry_time |-> data.entry_time,
     entry_zscore |-> data.entry_zscore,
     exit_zscore |-> data.exit_zscore,
     side |-> data.side,
     pair |-> data.pair,
     entry_hedge_ratio |-> data.entry_hedge_ratio,
     positions |-> data.positions,
     status |-> data.status]

Store == [active |-> active_setups, index |-> setups_file, files |-> setup_files]
SetStore(st) ==
    /\ active_setups' = st.active
    /\ setups_file' = st.index
    /\ setup_files' = st.files

\* _save_setups: the index file is rewritten from the in-memory dict.
SaveSetups(st) ==
    [st EXCEPT !.index =
        [exists |-> TRUE,
         active_setups |->
             [sid \in DOMAIN st.active |->
                 [entry_time |-> st.active[sid].entry_time,
                  entry_zscore |-> st.active[sid].entry_zscore,
                  side |-> st.active[sid].side,
                  pair |-> st.active[sid].pair,
                  total_positions |-> Len(st.active[sid].positions),
                  status |-> st.active[sid].status]]]]

\* _save_setup: the setup's own file is rewritten, then the index.
SaveSetup(st, setup) ==
    SaveSetups([st EXCEPT !.files = Put(@, setup.setup_id, ToDict(setup))])

\* create_setup
CreateSetupIn(st, entry_zscore, side, pair, entry_hedge_ratio, t) ==
    LET setup == [setup_id |-> SetupId(t),
                  entry_time |-> t,
                  entry_zscore |-> entry_zscore,
                  exit_zscore |-> NoExitZScore,
                  side |-> side,
                  pair |-> pair,
                  entry_hedge_ratio |-> entry_hedge_ratio,
                  positions |-> <<>>,
                  status |-> "ACTIVE"]
    IN  SaveSetup([st EXCEPT !.active = Put(@, SetupId(t), setup)], setup)

\* add_position_to_setup
AddPositionIn(st, setup_id, spread_id, short_id, mt5_primary_ticket, mt5_secondary_ticket, entry_zscore, primary_lots, secondary_lots, level) ==
    IF setup_id \notin DOMAIN st.active THEN st
    ELSE LET position == [spread_id |-> spread_id,
                          short_id |-> short_id,
                          mt5_primary_ticket |-> mt5_primary_ticket,
                          mt5_secondary_ticket |-> mt5_secondary_ticket,
                          entry_zscore |-> entry_zscore,
                          primary_lots |-> primary_lots,
                          secondary_lots |-> secondary_lots,
                          level |-> level]
             setup == [st.active[setup_id] EXCEPT
                          !.positions = Append(@, position)]
         IN  SaveSetup([st EXCEPT !.active[setup_id] = setup], setup)

\* get_active_setups: the ids, in the order of the dict (the order of creation).
RECURSIVE SortedSeq(_)
SortedSeq(S) == IF S = {} THEN <<>> ELSE <<SetMin(S)>> \o SortedSeq(S \ {SetMin(S)})
GetActiveSetups(st) ==
    SortedSeq({sid \in DOMAIN st.active : st.active[sid].status = "ACTIVE"})

\* A close that drops the setup from memory and from the index and leaves its own
\* file as it was.
CloseWithoutSaving(st, setup_id, exit_zscore) ==
    IF setup_id \notin DOMAIN st.active THEN st
    ELSE SaveSetups([st EXCEPT !.active = Del(@, setup_id)])

\* close_setup
CloseSetupIn(st, setup_id, exit_zscore) ==
    IF setup_id \notin DOMAIN st.active THEN st
    ELSE LET setup == [st.active[setup_id] EXCEPT
                          !.status = "CLOSED",
                          !.exit_zscore = exit_zscore]
             saved == SaveSetup([st EXCEPT !.active[setup_id] = setup], setup)
         IN  SaveSetups([saved EXCEPT !.active = Del(@, setup_id)])

\* A check that looks at the primary ticket of a leg only.
RECURSIVE MissingPrimaryOnly(_, _)
MissingPrimaryOnly(positions, mt5_tickets) ==
    IF positions = <<>> THEN <<>>
    ELSE (IF Head(positions).mt5_primary_ticket \notin mt5_tickets
          THEN <<Head(positions).mt5_primary_ticket>> ELSE <<>>)
         \o MissingPrimaryOnly(Tail(positions), mt5_tickets)

\* verify_setup_on_mt5: the missing tickets, leg by leg.  answered is FALSE when
\* mt5.positions_get() returns None, which the code takes for no position at all.
RECURSIVE MissingTickets(_, _)
MissingTickets(positions, mt5_tickets) ==
    IF positions = <<>> THEN <<>>
    ELSE LET pos == Head(positions)
         IN  (IF pos.mt5_primary_ticket \notin mt5_tickets
              THEN <<pos.mt5_primary_ticket>> ELSE <<>>)
             \o (IF pos.mt5_secondary_ticket \notin mt5_tickets
                 THEN <<pos.mt5_secondary_ticket>> ELSE <<>>)
             \o MissingTickets(Tail(positions), mt5_tickets)

VerifySetupOnMt5(st, setup_id, live, answered) ==
    IF setup_id \notin DOMAIN st.active
    THEN [all_found |-> FALSE, missing |-> <<>>]
    ELSE LET mt5_tickets == IF answered THEN live ELSE {}
             missing == MissingTickets(st.active[setup_id].positions, mt5_tickets)
         IN  [all_found |-> Len(missing) = 0, missing |-> missing]

\* get_all_setup_tickets
RECURSIVE TicketsOf(_)
TicketsOf(positions) ==
    IF positions = <<>> THEN <<>>
    ELSE <<Head(positions).mt5_primary_ticket, Head(positions).mt5_secondary_ticket>>
             \o TicketsOf(Tail(positions))
GetAllSetupTickets(st, setup_id) ==
    IF setup_id \notin DOMAIN st.active THEN <<>>
    ELSE TicketsOf(st.active[setup_id].positions)

\* A start that reads every per-setup file, whatever the index lists.
LoadEveryFile(st) == [st EXCEPT !.active = [sid \in DOMAIN st.files |-> FromDict(st.files[sid])]]

\* SetupTracker.__init__ with an existing directory: _load_setups
LoadSetups(st) ==
    [st EXCEPT !.active =
        IF ~st.index.exists THEN EmptyDict
        ELSE [sid \in {s \in DOMAIN st.index.active_setups : s \in DOMAIN st.files}
                 |-> FromDict(st.files[sid])]]

-----------------------------------------------------------------------------
(***************************************************************************)
(* SetupRecovery.  Its methods work on the store and on the broker's       *)
(* positions; what they do is computed on a record [st, live, orders]: the *)
(* store, the tickets open at the broker, the close orders sent so far.    *)
(***************************************************************************)

\* What the broker answers to a close order (order_send): TRADE_RETCODE_DONE, or a
\* refusal (another retcode, or no answer at all: both are handled alike).
CloseOutcomes == {"done", "rejected"}

\* The for loop of close_all_positions_in_setup; outcome[ticket] is the broker's
\* answer to a close order for that ticket.  A ticket positions_get(ticket=...)
\* does not return is skipped.
RECURSIVE CloseTickets(_, _, _, _)
CloseTickets(tickets, setup_id, outcome, acc) ==
    IF tickets = <<>> THEN acc
    ELSE LET ticket == Head(tickets)
         IN  IF ticket \notin acc.live
             THEN CloseTickets(Tail(tickets), setup_id, outcome, acc)
             ELSE LET sent == Append(acc.orders, [setup_id |-> setup_id,
                                                  ticket |-> ticket,
                                                  outcome |-> outcome[ticket]])
                  IN  IF outcome[ticket] = "done"
                      THEN CloseTickets(Tail(tickets), setup_id, outcome,
                               [acc EXCEPT !.live = @ \ {ticket},
                                           !.orders = sent,
                                           !.success_count = @ + 1])
                      ELSE CloseTickets(Tail(tickets), setup_id, outcome,
                               [acc EXCEPT !.orders = sent,
                                           !.failed_tickets = Append(@, ticket)])

\* "if success_count == len(tickets)"
AllClosed(success_count, failed_tickets, tickets) == success_count = Len(tickets)

\* close_all_positions_in_setup
CloseAllPositionsInSetup(w, setup_id, outcome) ==
    LET tickets == GetAllSetupTickets(w.st, setup_id)
    IN  IF Len(tickets) = 0
        THEN [st |-> w.st, live |-> w.live, orders |-> w.orders, result |-> FALSE]
        ELSE LET acc == CloseTickets(tickets, setup_id, outcome,
                            [live |-> w.live, orders |-> w.orders,
                             success_count |-> 0, failed_tickets |-> <<>>])
             IN  IF AllClosed(acc.success_count, acc.failed_tickets, tickets)
                 THEN [st |-> CloseSetupIn(w.st, setup_id, 0), live |-> acc.live,
                       orders |-> acc.orders, result |-> TRUE]
                 ELSE [st |-> w.st, live |-> acc.live, orders |-> acc.orders,
                       result |-> FALSE]

\* check_all_setups: the ids of the valid and of the invalid setups.
RECURSIVE SelectSeq2(_, _, _, _, _)
SelectSeq2(ids, st, live, answered, want) ==
    IF ids = <<>> THEN <<>>
    ELSE (IF VerifySetupOnMt5(st, Head(ids), live, answered).all_found = want
          THEN <<Head(ids)>> ELSE <<>>)
         \o SelectSeq2(Tail(ids), st, live, answered, want)
CheckAllSetups(st, live, answered) ==
    [valid |-> SelectSeq2(GetActiveSetups(st), st, live, answered, TRUE),
     invalid |-> SelectSeq2(GetActiveSetups(st), st, live, answered, FALSE)]

\* prompt_user_close_all: what the operator types, "1" (close all), "2" (keep) or
\* "3" (exit); anything else is asked again.
Choices == {"1", "2", "3"}

\* A loop that closes the positions of every invalid setup without asking.
RECURSIVE CloseWithoutAsking(_, _, _, _)
CloseWithoutAsking(invalid, choice, outcome, acc) ==
    IF invalid = <<>> THEN acc
    ELSE LET c == CloseAllPositionsInSetup(
                      [st |-> acc.st, live |-> acc.live, orders |-> acc.orders],
                      Head(invalid), outcome)
         IN  CloseWithoutAsking(Tail(invalid), choice, outcome,
                 [acc EXCEPT !.st = c.st, !.live = c.live, !.orders = c.orders])

\* A loop in which keeping a setup marks it closed in the store.
RECURSIVE KeepClosesSetup(_, _, _, _)
KeepClosesSetup(invalid, choice, outcome, acc) ==
    IF invalid = <<>> THEN acc
    ELSE LET setup_id == Head(invalid)
             shown == [acc EXCEPT !.prompted = Append(@, setup_id)]
         IN  IF choice[setup_id] = "1"
             THEN LET c == CloseAllPositionsInSetup(
                               [st |-> acc.st, live |-> acc.live, orders |-> acc.orders],
                               setup_id, outcome)
                  IN  KeepClosesSetup(Tail(invalid), choice, outcome,
                          [shown EXCEPT !.st = c.st, !.live = c.live,
                                        !.orders = c.orders])
             ELSE IF choice[setup_id] = "2"
             THEN KeepClosesSetup(Tail(invalid), choice, outcome,
                      [shown EXCEPT !.st = CloseSetupIn(@, setup_id, 0),
                                    !.valid_setups = Append(@, setup_id)])
             ELSE [shown EXCEPT !.exited = TRUE]

\* The for loop of recover_or_close_all over the invalid setups.
RECURSIVE HandleInvalid(_, _, _, _)
HandleInvalid(invalid, choice, outcome, acc) ==
    IF invalid = <<>> THEN acc
    ELSE LET setup_id == Head(invalid)
             shown == [acc EXCEPT !.prompted = Append(@, setup_id)]
         IN  IF choice[setup_id] = "1"
             THEN LET c == CloseAllPositionsInSetup(
                               [st |-> acc.st, live |-> acc.live, orders |-> acc.orders],
                               setup_id, outcome)
                  IN  HandleInvalid(Tail(invalid), choice, outcome,
                          [shown EXCEPT !.st = c.st, !.live = c.live,
                                        !.orders = c.orders])
             ELSE IF choice[setup_id] = "2"
             THEN HandleInvalid(Tail(invalid), choice, outcome,
                      [shown EXCEPT !.valid_setups = Append(@, setup_id)])
             ELSE [shown EXCEPT !.exited = TRUE]

\* A run that starts its result empty: it returns the kept setups only.
ReturnsKeptOnly(st, live, answered, choice, outcome) ==
    HandleInvalid(CheckAllSetups(st, live, answered).invalid, choice, outcome,
        [st |-> st, live |-> live, orders |-> <<>>, prompted |-> <<>>,
         valid_setups |-> <<>>, exited |-> FALSE])

\* recover_or_close_all
RecoverOrCloseAllResult(st, live, answered, choice, outcome) ==
    LET checked == CheckAllSetups(st, live, answered)
    IN  HandleInvalid(checked.invalid, choice, outcome,
            [st |-> st, live |-> live, orders |-> <<>>, prompted |-> <<>>,
             valid_setups |-> checked.valid, exited |-> FALSE])

(***************************************************************************)
(* The calls on tracker and recovery.                                      *)
(***************************************************************************)

CreateSetup(entry_zscore, side, pair, entry_hedge_ratio) ==
    /\ SetStore(CreateSetupIn(Store, entry_zscore, side, pair, entry_hedge_ratio,
                              wall_clock))
    /\ setup_call' = [op |-> "create_setup", result |-> SetupId(wall_clock),
                      active_before |-> DOMAIN active_setups,
                      files_before |-> DOMAIN setup_files]
    /\ UNCHANGED <<wall_clock, mt5_positions>>

AddPositionToSetup(setup_id, mt5_primary_ticket, mt5_secondary_ticket) ==
    /\ SetStore(AddPositionIn(Store, setup_id,
                              SpreadId(mt5_primary_ticket, mt5_secondary_ticket),
                              Digits(mt5_primary_ticket),
                              mt5_primary_ticket, mt5_secondary_ticket,
                              -400, 1, 1, "initial"))
    /\ setup_call' = [op |-> "add_position_to_setup", setup_id |-> setup_id,
                      mt5_primary_ticket |-> mt5_primary_ticket,
                      mt5_secondary_ticket |-> mt5_secondary_ticket]
    /\ UNCHANGED <<wall_clock, mt5_positions>>

CloseSetup(setup_id, exit_zscore) ==
    /\ SetStore(CloseSetupIn(Store, setup_id, exit_zscore))
    /\ setup_call' = [op |-> "close_setup", setup_id |-> setup_id,
                      exit_zscore |-> exit_zscore,
                      was_active |-> setup_id \in DOMAIN active_setups]
    /\ UNCHANGED <<wall_clock, mt5_positions>>

VerifySetup(setup_id, answered) ==
    /\ setup_call' = [op |-> "verify_setup_on_mt5", setup_id |-> setup_id,
                      known |-> setup_id \in DOMAIN active_setups,
                      tickets |-> GetAllSetupTickets(Store, setup_id),
                      answered |-> answered, live |-> mt5_positions,
                      result |-> VerifySetupOnMt5(Store, setup_id, mt5_positions,
                                                  answered)]
    /\ UNCHANGED <<wall_clock, active_setups, setups_file, setup_files, mt5_positions>>

\* The program starts again: a new SetupTracker on the same directory.
TrackerInit ==
    /\ SetStore(LoadSetups(Store))
    /\ setup_call' = [op |-> "__init__"]
    /\ UNCHANGED <<wall_clock, mt5_positions>>

CloseAllPositions(setup_id, outcome) ==
    \E c \in {CloseAllPositionsInSetup(
                  [st |-> Store, live |-> mt5_positions, orders |-> <<>>],
                  setup_id, outcome)} :
        /\ SetStore(c.st)
        /\ mt5_positions' = c.live
        /\ setup_call' = [op |-> "close_all_positions_in_setup",
                          setup_id |-> setup_id,
                          known |-> setup_id \in DOMAIN active_setups,
                          tickets |-> GetAllSetupTickets(Store, setup_id),
                          live |-> mt5_positions,
                          orders |-> c.orders,
                          result |-> c.result]
        /\ UNCHANGED wall_clock

\* The setups the operator kept in the run just before this one, each with the
\* missing tickets shown then, when that run saw the broker positions of this one.
KeptBefore ==
    IF setup_call.op = "recover_or_close_all" /\ setup_call.live = mt5_positions
    THEN [setup_id \in {s \in DOMAIN setup_call.choice :
                            /\ setup_call.choice[s] = "2"
                            /\ \E i \in 1 .. Len(setup_call.prompted) :
                                   setup_call.prompted[i] = s}
             |-> setup_call.missing[setup_id]]
    ELSE EmptyDict

RecoverOrCloseAll(answered, choice, outcome) ==
    \E r \in {RecoverOrCloseAllResult(Store, mt5_positions, answered, choice, outcome)} :
        /\ SetStore(r.st)
        /\ mt5_positions' = r.live
        /\ setup_call' = [op |-> "recover_or_close_all",
                          before |-> active_setups,
                          after |-> r.st,
                          live |-> mt5_positions,
                          answered |-> answered,
                          checked |-> CheckAllSetups(Store, mt5_positions, answered),
                          missing |-> [setup_id \in DOMAIN active_setups |->
                                          VerifySetupOnMt5(Store, setup_id, mt5_positions,
                                                           answered).missing],
                          kept_before |-> KeptBefore,
                          choice |-> choice,
                          prompted |-> r.prompted,
                          orders |-> r.orders,
                          kind |-> IF r.exited THEN "exit" ELSE "return",
                          result |-> IF r.exited THEN <<>> ELSE r.valid_setups]
        /\ UNCHANGED wall_clock

-----------------------------------------------------------------------------
(***************************************************************************)
(* Specifications                                                          *)
(***************************************************************************)

\* HybridRebalancer.__init__
RebalStart ==
    /\ active_positions = EmptyDict
    /\ last_adjustment = EmptyDict
    /\ adjustment_history = <<>>
    /\ now = 0
    /\ last_call = [op |-> "none"]

\* Constructor arguments: z values in units of 0.005 (100 = 0.5, 600 = 3.0),
\* thresholds as rationals (5/100 = 5 %, 1/1 = 0.01 lot), the interval in ticks.
HedgeConfigs ==
    [scale_interval : {100}, max_zscore : {600},
     hedge_drift_threshold : {<<5, 100>>},
     min_absolute_drift : {<<1, 1>>},
     min_adjustment_interval : {2},
     enable_hedge_adjustment : BOOLEAN]
PyramidConfigs ==
    [scale_interval : {100}, max_zscore : {600, 700},
     hedge_drift_threshold : {<<5, 100>>},
     min_absolute_drift : {<<1, 1>>},
     min_adjustment_interval : {2},
     enable_hedge_adjustment : {TRUE}]

\* PositionRebalancer.__init__
RebalanceStart ==
    /\ rb_cfg = [scale_interval |-> 100, max_zscore |-> 600,
                 initial_fraction |-> <<33, 100>>]
    /\ rb_active_positions = EmptyDict
    /\ rb_last_call = [op |-> "none"]

\* SetupTracker.__init__ on an empty directory, in the second half of a second;
\* no position at the broker.
SetupStart ==
    /\ wall_clock = 1
    /\ active_setups = EmptyDict
    /\ setups_file = [exists |-> FALSE]
    /\ setup_files = EmptyDict
    /\ mt5_positions = {}
    /\ setup_call = [op |-> "none"]

RebalIdle ==
    /\ cfg \in {c \in PyramidConfigs : c.max_zscore = 600}
    /\ RebalStart

\* Inputs of the hedge-drift scenarios.
EntryLots == {<<1, 1>>, <<100, 72>>, <<100, 98>>, <<0, 1>>}
HedgeRatios == {<<7179, 10000>>, <<1, 1>>, <<0, 1>>}
ExecutedQuantities == {1, 2}
\* Inputs of the pyramiding scenarios.
EntryZScores == {-400, 400, -650}
CurrentZScores == {-400, -500, -610, -700, 500, 700}
MarkZScores == {-500, -499, -600, -700, 500}
PyramidIds == {"s1"}
RebalanceEntryZScores == {-400, 400}
RebalanceCurrentZScores == {-500, -700, 700}
RebalanceMarkZScores == {-500, -600, 501}

\* ---- the executor's calls
ExecPlaceSpreadOrders ==
    /\ \E v \in VolumePairs, side \in Sides :
           \E op \in BrokerOutcomes, os \in BrokerOutcomes :
               \E tp \in FreshTickets(op, used_tickets) :
                   \E ts \in FreshTickets(os, used_tickets \cup {tp}) :
                       PlaceSpreadOrders(v[1], v[2], side, op, os, tp, ts)
    /\ UNCHANGED <<rebal_vars, rb_vars, setup_vars, thread_vars>>

\* ---- the rebalancer's calls in the hedge-drift scenarios.  An adjustment that
\* check_hedge_drift returned is executed, if at all, before the next call
\* (_execute_hedge_adjustment: spread_id = adjustment.spread_id, the executed
\* quantity is the broker's fill).
HedgeRegister ==
    /\ \E id \in SpreadIds, lots \in EntryLots :
           RegisterPosition(id, "LONG", -400, <<1, 1>>, lots[1], lots[2])
    /\ UNCHANGED <<exec_vars, rb_vars, setup_vars, thread_vars>>
HedgeCheck ==
    /\ \E id \in SpreadIds, hr \in HedgeRatios : CheckHedgeDrift(id, hr)
    /\ UNCHANGED <<exec_vars, rb_vars, setup_vars, thread_vars>>
HedgeMark ==
    /\ Len(adjustment_history) < MaxAdjustments
    /\ last_call.op = "check_hedge_drift"
    /\ last_call.result # NoAdjustment
    /\ \E q \in ExecutedQuantities :
           MarkHedgeAdjusted(last_call.result.spread_id, last_call.result, q)
    /\ UNCHANGED <<exec_vars, rb_vars, setup_vars, thread_vars>>
HedgeRemove ==
    /\ \E id \in SpreadIds : RemovePosition(id)
    /\ UNCHANGED <<exec_vars, rb_vars, setup_vars, thread_vars>>
HedgeTick ==
    /\ Tick
    /\ UNCHANGED <<exec_vars, rb_vars, setup_vars, thread_vars>>

\* ---- the rebalancer's calls in the pyramiding scenarios
PyramidRegister ==
    /\ \E id \in PyramidIds, side \in RSides, z \in EntryZScores :
           RegisterPosition(id, side, z, <<1, 1>>, 1, 1)
    /\ UNCHANGED <<exec_vars, rb_vars, setup_vars, thread_vars>>
PyramidCheck ==
    /\ \E id \in PyramidIds, z \in CurrentZScores : CheckPyramiding(id, z)
    /\ UNCHANGED <<exec_vars, rb_vars, setup_vars, thread_vars>>
PyramidMark ==
    /\ \E id \in PyramidIds, z \in MarkZScores :
           /\ id \in DOMAIN active_positions =>
                  active_positions[id].total_executed < MaxExecuted
           /\ MarkPyramidingExecuted(id, z, 1, 1)
    /\ UNCHANGED <<exec_vars, rb_vars, setup_vars, thread_vars>>
PyramidRemove ==
    /\ \E id \in PyramidIds : RemovePosition(id)
    /\ UNCHANGED <<exec_vars, rb_vars, setup_vars, thread_vars>>

\* ---- the calls on the PositionRebalancer
RebalanceRegister ==
    /\ \E id \in PyramidIds, side \in RSides, z \in RebalanceEntryZScores :
           RebalanceRegisterPosition(id, side, z, <<1, 1>>)
    /\ UNCHANGED <<exec_vars, rebal_vars, setup_vars, thread_vars>>
RebalanceCheck ==
    /\ \E id \in PyramidIds, z \in RebalanceCurrentZScores :
           CheckRebalanceNeeded(id, z)
    /\ UNCHANGED <<exec_vars, rebal_vars, setup_vars, thread_vars>>
RebalanceMark ==
    /\ \E id \in PyramidIds, z \in RebalanceMarkZScores :
           /\ id \in DOMAIN rb_active_positions =>
                  rb_active_positions[id].total_executed < MaxExecuted
           /\ MarkLevelExecuted(id, z, 1, 1)
    /\ UNCHANGED <<exec_vars, rebal_vars, setup_vars, thread_vars>>
RebalanceRemove ==
    /\ \E id \in PyramidIds : RebalanceRemovePosition(id)
    /\ UNCHANGED <<exec_vars, rebal_vars, setup_vars, thread_vars>>

\* ---- the calls on the setup store and the recovery, and their environment
SetupTickets == {1, 2, 3, 4}
TicketPairs == {<<1, 2>>, <<3, 4>>}
ExitZScores == {0, 40}
\* Bounds of the setup model.
MaxWallClock == 2
MaxLegs == 2
SetupIdsAsked == 0 .. SetupId(MaxWallClock)
RECURSIVE LegsIn(_, _)
LegsIn(dict, ids) ==
    IF ids = <<>> THEN 0
    ELSE Len(dict[Head(ids)].positions) + LegsIn(dict, Tail(ids))
\* The legs registered in the setups in memory.
LegsRegistered == LegsIn(active_setups, SortedSeq(DOMAIN active_setups))
\* The setups the recovery will find invalid.
InvalidSetups == CheckAllSetups(Store, mt5_positions, TRUE).invalid
\* Those of them the operator wants closed.
ToClose(choice) == SelectSeq(InvalidSetups, LAMBDA setup_id : choice[setup_id] = "1")
TicketsAsked(ids) == {t \in SetupTickets : \E i \in 1 .. Len(ids) : \E j \in 1 .. Len(GetAllSetupTickets(Store, ids[i])) : GetAllSetupTickets(Store, ids[i])[j] = t}

SetupCreate ==
    /\ CreateSetup(-400, "LONG", "XAU/XAG", <<1, 1>>)
    /\ UNCHANGED <<exec_vars, rebal_vars, rb_vars, thread_vars>>
SetupAddPosition ==
    /\ \E setup_id \in SetupIdsAsked, pair \in TicketPairs :
           /\ LegsRegistered < MaxLegs
           /\ AddPositionToSetup(setup_id, pair[1], pair[2])
    /\ UNCHANGED <<exec_vars, rebal_vars, rb_vars, thread_vars>>
SetupClose ==
    /\ \E setup_id \in SetupIdsAsked, exit_zscore \in ExitZScores :
           CloseSetup(setup_id, exit_zscore)
    /\ UNCHANGED <<exec_vars, rebal_vars, rb_vars, thread_vars>>
SetupVerify ==
    /\ \E setup_id \in SetupIdsAsked, answered \in BOOLEAN :
           VerifySetup(setup_id, answered)
    /\ UNCHANGED <<exec_vars, rebal_vars, rb_vars, thread_vars>>
SetupRestart ==
    /\ TrackerInit
    /\ UNCHANGED <<exec_vars, rebal_vars, rb_vars, thread_vars>>
\* The outcomes are drawn for the tickets open at the broker.
SetupCloseAll ==
    /\ \E setup_id \in SetupIdsAsked :
       \E outcome \in [mt5_positions \cap TicketsAsked(<<setup_id>>) -> CloseOutcomes] :
           CloseAllPositions(setup_id, outcome)
    /\ UNCHANGED <<exec_vars, rebal_vars, rb_vars, thread_vars>>
SetupRecover ==
    /\ \E choice \in [{InvalidSetups[i] : i \in 1 .. Len(InvalidSetups)} -> Choices] :
       \E outcome \in [mt5_positions \cap TicketsAsked(ToClose(choice)) -> CloseOutcomes] :
           RecoverOrCloseAll(TRUE, choice, outcome)
    /\ UNCHANGED <<exec_vars, rebal_vars, rb_vars, thread_vars>>
\* A position is opened or closed at the broker, by the program or by hand.
BrokerPositionChange ==
    /\ \E ticket \in SetupTickets :
           mt5_positions' = IF ticket \in mt5_positions
                            THEN mt5_positions \ {ticket}
                            ELSE mt5_positions \cup {ticket}
    /\ UNCHANGED <<wall_clock, active_setups, setups_file, setup_files, setup_call>>
    /\ UNCHANGED <<exec_vars, rebal_vars, rb_vars, thread_vars>>
SetupTick ==
    /\ wall_clock < MaxWallClock
    /\ wall_clock' = wall_clock + 1
    /\ UNCHANGED <<active_setups, setups_file, setup_files, mt5_positions, setup_call>>
    /\ UNCHANGED <<exec_vars, rebal_vars, rb_vars, thread_vars>>

ExecNext == ExecPlaceSpreadOrders
HedgeNext == HedgeRegister \/ HedgeCheck \/ HedgeMark \/ HedgeRemove \/ HedgeTick
PyramidNext ==
    \/ PyramidRegister \/ PyramidCheck \/ PyramidMark \/ PyramidRemove
    \/ RebalanceRegister \/ RebalanceCheck \/ RebalanceMark \/ RebalanceRemove

\* ---- the ladders of both rebalancers, for several intervals and stops
LadderConfigs ==
    [scale_interval : {100, 80}, max_zscore : {600, 700},
     hedge_drift_threshold : {<<5, 100>>},
     min_absolute_drift : {<<1, 1>>},
     min_adjustment_interval : {2},
     enable_hedge_adjustment : {TRUE}]
LadderEntryZScores == {-400, 400, -20, -650, 700}
LadderRegister ==
    /\ \E side \in RSides, z \in LadderEntryZScores :
           RegisterPosition("s1", side, z, <<1, 1>>, 1, 1)
    /\ UNCHANGED <<exec_vars, rb_vars, setup_vars, thread_vars>>
LadderRebalanceRegister ==
    /\ \E side \in RSides, z \in LadderEntryZScores :
           RebalanceRegisterPosition("s1", side, z, <<1, 1>>)
    /\ UNCHANGED <<exec_vars, rebal_vars, setup_vars, thread_vars>>

\* ---- cycles of check_hedge_drift and mark_hedge_adjusted in which the broker
\* fills the whole quantity asked for; thresholds down to zero, leg lots from
\* zero, hedge ratios of either sign
DriftConfigs ==
    [scale_interval : {100}, max_zscore : {600},
     hedge_drift_threshold : {<<5, 100>>, <<0, 1>>},
     min_absolute_drift : {<<1, 1>>, <<0, 1>>},
     min_adjustment_interval : {1},
     enable_hedge_adjustment : {TRUE}]
DriftLots == {<<100, 72>>, <<100, 100>>, <<1, 2>>, <<0, 0>>}
DriftRatios == {<<1, 1>>, <<1, 2>>, <<-1, 1>>}
\* Bound: the adjustments executed.
MaxCycles == 2
\* A quantity the broker can fill: a positive whole number of 0.01 lots.
Fillable(quantity) == RatSign(quantity) > 0 /\ quantity[1] % quantity[2] = 0
DriftRegister ==
    /\ \E lots \in DriftLots, hr \in {<<1, 1>>, <<1, 2>>} :
           RegisterPosition("s1", "LONG", -400, hr, lots[1], lots[2])
    /\ UNCHANGED <<exec_vars, rb_vars, setup_vars, thread_vars>>
DriftCheck ==
    /\ \E hr \in DriftRatios : CheckHedgeDrift("s1", hr)
    /\ UNCHANGED <<exec_vars, rb_vars, setup_vars, thread_vars>>
DriftMarkInFull ==
    /\ Len(adjustment_history) < MaxCycles
    /\ last_call.op = "check_hedge_drift"
    /\ last_call.result # NoAdjustment
    /\ Fillable(last_call.result.quantity)
    /\ MarkHedgeAdjusted(last_call.result.spread_id, last_call.result,
                         last_call.result.quantity[1] \div last_call.result.quantity[2])
    /\ UNCHANGED <<exec_vars, rb_vars, setup_vars, thread_vars>>
DriftTick ==
    /\ Tick
    /\ UNCHANGED <<exec_vars, rb_vars, setup_vars, thread_vars>>

\* ---- fills reported to both rebalancers, on ladders whose last two levels may
\* lie within the tolerance of each other (stop 3.005 after a level at 3.0)
MarkConfigs ==
    [scale_interval : {100}, max_zscore : {600, 601},
     hedge_drift_threshold : {<<5, 100>>},
     min_absolute_drift : {<<1, 1>>},
     min_adjustment_interval : {2},
     enable_hedge_adjustment : {TRUE}]
MarkEntryZScores == {-400, 400}
\* On a level, 0.005 from one, 0.015 from one, between two, beyond the stop.
FillZScores == {-500, -499, -497, -601, -450, 500}
FillLots == {<<1, 1>>, <<2, 3>>}
MarkRegister ==
    /\ \E side \in RSides, z \in MarkEntryZScores :
           RegisterPosition("s1", side, z, <<1, 1>>, 1, 1)
    /\ UNCHANGED <<exec_vars, rb_vars, setup_vars, thread_vars>>
MarkPyramiding ==
    /\ \E id \in {"s1", "s2"}, z \in FillZScores, lots \in FillLots :
           /\ id \in DOMAIN active_positions =>
                  active_positions[id].total_executed < MaxExecuted
           /\ MarkPyramidingExecuted(id, z, lots[1], lots[2])
    /\ UNCHANGED <<exec_vars, rb_vars, setup_vars, thread_vars>>
MarkRebalanceRegister ==
    /\ RebalanceRegisterPosition("s1", "LONG", -400, <<1, 1>>)
    /\ UNCHANGED <<exec_vars, rebal_vars, setup_vars, thread_vars>>
MarkRebalanceLevel ==
    /\ \E id \in {"s1"}, z \in {-499, -450}, lots \in FillLots :
           /\ id \in DOMAIN rb_active_positions =>
                  rb_active_positions[id].total_executed < MaxExecuted
           /\ MarkLevelExecuted(id, z, lots[1], lots[2])
    /\ UNCHANGED <<exec_vars, rebal_vars, setup_vars, thread_vars>>
-----------------------------------------------------------------------------
(***************************************************************************)
(* TradingSystem: the four worker threads of main_indices_cli.py, the two  *)
(* queues between them, the system lock and the running flag.  One step of *)
(* a thread is one of the actions below; pc tells where a thread stands:   *)
(*   Data       bootstrap, loop, fetch, put, publish                       *)
(*   Signal     loop, get, lock, evaluate, put                             *)
(*   Execution  loop, get, lock, action, broker, update, release           *)
(*   Monitor    loop, lock, status                                         *)
(* and for all of them "except" (in the handler of the loop, backing off), *)
(* "done" (the loop was left) and "new" (not started).  The items of the   *)
(* queues are of one kind each: what a snapshot or an action request holds *)
(* has no part in what the threads do with queues, lock and flag.  The     *)
(* setups are seen through two counters: the orders the execution thread   *)
(* had filled at the broker, and the updates of the data model it applied  *)
(* for them (register_position, mark_pyramiding_executed,                  *)
(* mark_hedge_adjusted, remove_position).                                  *)
(***************************************************************************)

Threads == {"Data", "Signal", "Execution", "Monitor"}
\* queue.Queue(maxsize=10)
QueueCapacity == 10
\* The market feed delivers any number of snapshots.
Unlimited == -1
\* Bounds of the thread model: snapshots the feed delivers when it is limited,
\* requests one evaluation pass can produce, orders the execution thread places.
MaxSnapshots == 2
MaxPending == 2
MaxActions == 2

Snapshot == [kind |-> "snapshot"]
ActionRequest == [kind |-> "action"]

\* Queue.put(item, block=False): queue.Full when maxsize items are held.
Full(queue) == Len(queue) >= QueueCapacity
PutAlways(queue, item) == Append(queue, item)
PutNoWait(queue, item) == IF Full(queue) THEN queue ELSE Append(queue, item)
\* "except queue.Full: logger.warning(...)"
Warned(queue, message) == IF Full(queue) THEN warnings \cup {message} ELSE warnings

\* "with self.lock:" on entry, and on leaving the block, normally or by an
\* exception.  No thread enters the block while it is in it.
AcquireAnyway(t) == TRUE
CanAcquire(t) == lock = "none"
KeepLock(t) == lock
Release(t) == IF lock = t THEN "none" ELSE lock

\* "while self.running:"
LoopForever == TRUE
LoopCondition == running

Goto(t, label) == pc' = [pc EXCEPT ![t] = label]

\* The top of a worker loop.
Loop(t) ==
    /\ pc[t] = "loop"
    /\ Goto(t, IF LoopCondition THEN
                   CASE t = "Data" -> "fetch"
                     [] t = "Monitor" -> "lock"
                     [] OTHER -> "get"
               ELSE "done")
    /\ UNCHANGED <<running, data_queue, signal_queue, lock, pending, ticks_left,
                   current_snapshot, broker_orders, setup_updates, raised, warnings>>

\* _data_thread before its loop: bootstrap_window, the initial snapshot and its
\* put; an exception there clears the running flag and ends the thread.
DataBootstrap(ok) ==
    /\ pc["Data"] = "bootstrap"
    /\ IF ~ok
       THEN /\ running' = FALSE
            /\ Goto("Data", "done")
            /\ UNCHANGED <<data_queue, ticks_left, current_snapshot, warnings>>
       ELSE /\ Goto("Data", "loop")
            /\ IF ticks_left = 0
               THEN UNCHANGED <<data_queue, ticks_left, current_snapshot, warnings>>
               ELSE /\ current_snapshot' = TRUE
                    /\ data_queue' = PutNoWait(data_queue, Snapshot)
                    /\ warnings' = Warned(data_queue, "Data queue full on initial snapshot")
                    /\ ticks_left' = IF ticks_left = Unlimited THEN Unlimited
                                     ELSE ticks_left - 1
            /\ UNCHANGED running
    /\ UNCHANGED <<signal_queue, lock, pending, broker_orders, setup_updates, raised>>

\* get_realtime_snapshot(): None ("time.sleep(10); continue") or a snapshot.
DataFetch ==
    /\ pc["Data"] = "fetch"
    /\ IF ticks_left = 0
       THEN Goto("Data", "loop") /\ UNCHANGED ticks_left
       ELSE /\ Goto("Data", "put")
            /\ ticks_left' = IF ticks_left = Unlimited THEN Unlimited ELSE ticks_left - 1
    /\ UNCHANGED <<running, data_queue, signal_queue, lock, pending, current_snapshot,
                   broker_orders, setup_updates, raised, warnings>>

\* self.data_queue.put(data, block=False)
DataPut ==
    /\ pc["Data"] = "put"
    /\ data_queue' = PutNoWait(data_queue, Snapshot)
    /\ warnings' = Warned(data_queue, "Data queue full")
    /\ Goto("Data", "publish")
    /\ UNCHANGED <<running, signal_queue, lock, pending, ticks_left, current_snapshot,
                   broker_orders, setup_updates, raised>>

\* self.current_snapshot = snapshot; time.sleep(self.update_interval)
DataPublish ==
    /\ pc["Data"] = "publish"
    /\ current_snapshot' = TRUE
    /\ Goto("Data", "loop")
    /\ UNCHANGED <<running, data_queue, signal_queue, lock, pending, ticks_left,
                   broker_orders, setup_updates, raised, warnings>>

\* queue.get(timeout=5): an item, or queue.Empty and "continue".
Get(t) ==
    /\ pc[t] = "get"
    /\ IF t = "Signal"
       THEN /\ IF data_queue = <<>>
               THEN Goto(t, "loop") /\ UNCHANGED data_queue
               ELSE Goto(t, "lock") /\ data_queue' = Tail(data_queue)
            /\ UNCHANGED signal_queue
       ELSE /\ IF signal_queue = <<>>
               THEN Goto(t, "loop") /\ UNCHANGED signal_queue
               ELSE Goto(t, "lock") /\ signal_queue' = Tail(signal_queue)
            /\ UNCHANGED data_queue
    /\ UNCHANGED <<running, lock, pending, ticks_left, current_snapshot, broker_orders,
                   setup_updates, raised, warnings>>

\* "with self.lock:" — the thread waits until the lock is free.
Acquire(t) ==
    /\ pc[t] = "lock"
    /\ CanAcquire(t)
    /\ lock' = t
    /\ Goto(t, CASE t = "Signal" -> "evaluate"
                 [] t = "Execution" -> "action"
                 [] OTHER -> "status")
    /\ UNCHANGED <<running, data_queue, signal_queue, pending, ticks_left,
                   current_snapshot, broker_orders, setup_updates, raised, warnings>>

\* The evaluation pass of the signal thread: generate_signal and, with positions
\* open, check_all_rebalancing; n requests are to be queued.
SignalEvaluate(n) ==
    /\ pc["Signal"] = "evaluate"
    /\ pending' = n
    /\ Goto("Signal", "put")
    /\ UNCHANGED <<running, data_queue, signal_queue, lock, ticks_left,
                   current_snapshot, broker_orders, setup_updates, raised, warnings>>

\* self.signal_queue.put({...}, block=False) for each request, then the end of
\* the "with" block.
SignalPut ==
    /\ pc["Signal"] = "put"
    /\ IF pending > 0
       THEN /\ signal_queue' = PutNoWait(signal_queue, ActionRequest)
            /\ warnings' = Warned(signal_queue, "Signal queue full")
            /\ pending' = pending - 1
            /\ UNCHANGED <<lock, pc>>
       ELSE /\ lock' = Release("Signal")
            /\ Goto("Signal", "loop")
            /\ UNCHANGED <<signal_queue, warnings, pending>>
    /\ UNCHANGED <<running, data_queue, ticks_left, current_snapshot, broker_orders,
                   setup_updates, raised>>

\* The execution thread on a request: "continue" (positions at the maximum, risk
\* check failed, nothing to do), or one of _execute_entry, _execute_pyramiding,
\* _execute_hedge_adjustment, _execute_exit, which calls the broker first.
ExecDispatch(go) ==
    /\ pc["Execution"] = "action"
    /\ IF go
       THEN Goto("Execution", "broker") /\ UNCHANGED lock
       ELSE Goto("Execution", "loop") /\ lock' = Release("Execution")
    /\ UNCHANGED <<running, data_queue, signal_queue, pending, ticks_left,
                   current_snapshot, broker_orders, setup_updates, raised, warnings>>

\* The broker call returns: filled, or failed ("return" in the _execute_ method).
ExecBrokerReturns(filled) ==
    /\ pc["Execution"] = "broker"
    /\ IF filled
       THEN /\ broker_orders' = broker_orders + 1
            /\ Goto("Execution", "update")
            /\ UNCHANGED lock
       ELSE /\ Goto("Execution", "loop")
            /\ lock' = Release("Execution")
            /\ UNCHANGED broker_orders
    /\ UNCHANGED <<running, data_queue, signal_queue, pending, ticks_left,
                   current_snapshot, setup_updates, raised, warnings>>

\* The update of the data model after the fill: position_tracker, mt5_tickets,
\* rebalancer.register_position / mark_... / remove_position.
ExecUpdate ==
    /\ pc["Execution"] = "update"
    /\ setup_updates' = setup_updates + 1
    /\ Goto("Execution", "release")
    /\ UNCHANGED <<running, data_queue, signal_queue, lock, pending, ticks_left,
                   current_snapshot, broker_orders, raised, warnings>>

\* The end of the "with" block of the execution thread.
ExecRelease ==
    /\ pc["Execution"] = "release"
    /\ lock' = Release("Execution")
    /\ Goto("Execution", "loop")
    /\ UNCHANGED <<running, data_queue, signal_queue, pending, ticks_left,
                   current_snapshot, broker_orders, setup_updates, raised, warnings>>

\* The status pass of the monitor thread.
MonitorStatus ==
    /\ pc["Monitor"] = "status"
    /\ lock' = Release("Monitor")
    /\ Goto("Monitor", "loop")
    /\ UNCHANGED <<running, data_queue, signal_queue, pending, ticks_left,
                   current_snapshot, broker_orders, setup_updates, raised, warnings>>

\* Where an exception can be raised inside the "try" of a loop iteration.
InTry(t) ==
    CASE t = "Data" -> {"fetch", "put", "publish"}
      [] t = "Signal" -> {"evaluate", "put"}
      [] t = "Execution" -> {"lock", "action", "broker", "update"}
      [] OTHER -> {"status"}
\* The _execute_ methods have a "try/except Exception" of their own and return
\* from it; everything else goes to the "except Exception" of the loop, which
\* logs and sleeps.
CaughtInside(t) == t = "Execution" /\ pc[t] \in {"broker", "update"}
Raise(t) ==
    /\ pc[t] \in InTry(t)
    /\ lock' = Release(t)
    /\ Goto(t, IF CaughtInside(t) THEN "loop" ELSE "except")
    /\ pending' = IF t = "Signal" THEN 0 ELSE pending
    /\ raised' = raised \cup {t}
    /\ UNCHANGED <<running, data_queue, signal_queue, ticks_left, current_snapshot,
                   broker_orders, setup_updates, warnings>>
\* time.sleep(5) / time.sleep(10) in the handler, then the next iteration.
Backoff(t) ==
    /\ pc[t] = "except"
    /\ Goto(t, "loop")
    /\ UNCHANGED <<running, data_queue, signal_queue, lock, pending, ticks_left,
                   current_snapshot, broker_orders, setup_updates, raised, warnings>>

\* stop(): self.running = False
Stop ==
    /\ running
    /\ running' = FALSE
    /\ UNCHANGED <<data_queue, signal_queue, lock, pc, pending, ticks_left,
                   current_snapshot, broker_orders, setup_updates, raised, warnings>>

\* TradingSystem.__init__: nothing started.
ThreadIdle ==
    /\ running = FALSE
    /\ data_queue = <<>>
    /\ signal_queue = <<>>
    /\ lock = "none"
    /\ pc = [t \in Threads |-> "new"]
    /\ pending = 0
    /\ ticks_left = 0
    /\ current_snapshot = FALSE
    /\ broker_orders = 0
    /\ setup_updates = 0
    /\ raised = {}
    /\ warnings = {}
    /\ placed = <<>>
\* After start(): the flag is set and the four threads run.
Started(ticks) ==
    /\ running = TRUE
    /\ data_queue = <<>>
    /\ signal_queue = <<>>
    /\ lock = "none"
    /\ pc = [t \in Threads |-> IF t = "Data" THEN "bootstrap" ELSE "loop"]
    /\ pending = 0
    /\ ticks_left = ticks
    /\ current_snapshot = FALSE
    /\ broker_orders = 0
    /\ setup_updates = 0
    /\ raised = {}
    /\ warnings = {}
    /\ placed = <<>>

\* ---- the steps of the threads
Elsewhere == UNCHANGED <<exec_vars, rebal_vars, rb_vars, setup_vars, placed>>
WorkerLoop == (\E t \in Threads : Loop(t)) /\ Elsewhere
WorkerGet == (\E t \in {"Signal", "Execution"} : Get(t)) /\ Elsewhere
WorkerAcquire == (\E t \in Threads \ {"Data"} : Acquire(t)) /\ Elsewhere
DataStart == DataBootstrap(TRUE) /\ Elsewhere
DataBootstrapError == DataBootstrap(FALSE) /\ Elsewhere
DataFetchSnapshot == DataFetch /\ Elsewhere
DataPutSnapshot == DataPut /\ Elsewhere
DataPublishSnapshot == DataPublish /\ Elsewhere
SignalEvaluation ==
    /\ \E n \in 0 .. MaxPending : (n > 1 => setup_updates > 0) /\ SignalEvaluate(n)
    /\ Elsewhere
SignalPutRequest == SignalPut /\ Elsewhere
ExecutionDispatch ==
    /\ \E go \in BOOLEAN : (go => broker_orders < MaxActions) /\ ExecDispatch(go)
    /\ Elsewhere
ExecutionBrokerReturns == (\E filled \in BOOLEAN : ExecBrokerReturns(filled)) /\ Elsewhere
ExecutionUpdate == ExecUpdate /\ Elsewhere
ExecutionRelease == ExecRelease /\ Elsewhere
MonitorStatusPass == MonitorStatus /\ Elsewhere
WorkerRaise == (\E t \in Threads : Raise(t)) /\ Elsewhere
WorkerBackoff == (\E t \in Threads : Backoff(t)) /\ Elsewhere
SystemStop == Stop /\ Elsewhere

\* What a thread does when nothing goes wrong.
Proceed(t) ==
    \/ Loop(t) \/ Get(t) \/ Acquire(t) \/ Backoff(t)
    \/ t = "Data" /\ (DataBootstrap(TRUE) \/ DataFetch \/ DataPut \/ DataPublish)
    \/ t = "Signal" /\ ((\E n \in 0 .. MaxPending : SignalEvaluate(n)) \/ SignalPut)
    \/ t = "Execution" /\ \/ \E go \in BOOLEAN : ExecDispatch(go)
                          \/ \E filled \in BOOLEAN : ExecBrokerReturns(filled)
                          \/ ExecUpdate \/ ExecRelease
    \/ t = "Monitor" /\ MonitorStatus

QueuesNext ==
    \/ WorkerLoop \/ WorkerGet \/ WorkerAcquire
    \/ DataStart \/ DataFetchSnapshot \/ DataPutSnapshot \/ DataPublishSnapshot
    \/ SignalEvaluation \/ SignalPutRequest
    \/ ExecutionDispatch \/ ExecutionBrokerReturns \/ ExecutionUpdate \/ ExecutionRelease
    \/ MonitorStatusPass
WorkersNext ==
    \/ WorkerLoop \/ WorkerGet \/ WorkerAcquire
    \/ DataStart \/ DataBootstrapError \/ DataFetchSnapshot \/ DataPutSnapshot
    \/ DataPublishSnapshot
    \/ SignalEvaluation \/ SignalPutRequest
    \/ ExecutionDispatch \/ ExecutionBrokerReturns \/ ExecutionUpdate \/ ExecutionRelease
    \/ MonitorStatusPass
    \/ WorkerRaise \/ WorkerBackoff \/ SystemStop

InitQueues ==
    /\ ExecIdle /\ RebalIdle /\ RebalanceStart /\ SetupStart /\ Started(Unlimited)
InitWorkers ==
    /\ ExecIdle /\ RebalIdle /\ RebalanceStart /\ SetupStart /\ Started(MaxSnapshots)


\* ---- the way of a request through the system: what the evaluation pass of
\* the signal thread puts into the signal queue and what the execution thread
\* does with it, on the HybridRebalancer above.  Each pass runs under the
\* system lock from its first statement to its last, so a whole pass is one
\* step here.  The signal generator and the position tracker are outside this
\* model: the signal of a pass is an input, and the spreads with open positions
\* are the registered setups.
SignalTypes == {"HOLD", "LONG_SPREAD", "CLOSE_LONG"}
PipeZScores == {-400, -500, 0}
PipeHedgeRatios == {<<72, 100>>, <<1, 1>>}
\* The lots of an entry and of a scale-in, as filled.
PipeLots == <<100, 72>>
\* Bound: the snapshots the feed delivers.
MaxPipeSnapshots == 3

\* data = {'snapshot': snapshot, ...} with snapshot.zscore, snapshot.hedge_ratio
MarketData(zscore, hedge_ratio) ==
    [kind |-> "snapshot", zscore |-> zscore, hedge_ratio |-> hedge_ratio]

\* The setups of self.active_positions in the order of the dict.
SpreadIdsInOrder == <<"s1", "s2">>
SetupsInOrder == SelectSeq(SpreadIdsInOrder, LAMBDA id : id \in DOMAIN active_positions)

\* "for action in pyramid_actions: self.signal_queue.put({'signal': signal,
\* 'data': data, 'rebalance': action}, block=False)", check_all_rebalancing
\* having collected check_pyramiding of every setup.
RECURSIVE PyramidRequests(_, _, _)
PyramidRequests(ids, signal, data) ==
    IF ids = <<>> THEN <<>>
    ELSE LET action == CheckPyramidingResult(Head(ids), data.zscore)
         IN  (IF action.type = "PYRAMIDING"
              THEN <<[kind |-> "rebalance", signal |-> signal, data |-> data,
                      spread_id |-> action.spread_id, side |-> action.side,
                      zscore |-> action.level.zscore]>>
              ELSE <<>>) \o PyramidRequests(Tail(ids), signal, data)

\* "for adjustment in hedge_adjustments: self.signal_queue.put({...,
\* 'hedge_adjustment': adjustment}, block=False)"
RECURSIVE HedgeRequests(_, _, _)
HedgeRequests(ids, signal, data) ==
    IF ids = <<>> THEN <<>>
    ELSE LET adjustment == CheckHedgeDriftResult(Head(ids), data.hedge_ratio)
         IN  (IF adjustment # NoAdjustment
              THEN <<[kind |-> "hedge_adjustment", signal |-> signal, data |-> data,
                      spread_id |-> adjustment.spread_id]>>
              ELSE <<>>) \o HedgeRequests(Tail(ids), signal, data)

\* "if signal.signal_type != SignalType.HOLD: self.signal_queue.put({'signal':
\* signal, 'data': data, 'rebalance': None}, block=False)"
SignalRequests(signal, data) ==
    IF signal # "HOLD"
    THEN <<[kind |-> "signal", signal |-> signal, data |-> data,
            spread_id |-> "", side |-> "", zscore |-> 0]>>
    ELSE <<>>

\* The puts of one pass, in their order; a put on a full queue is dropped.
RECURSIVE PutEach(_, _)
PutEach(queue, items) ==
    IF items = <<>> THEN queue
    ELSE PutEach(PutNoWait(queue, Head(items)), Tail(items))

\* _data_thread: a snapshot is put into the data queue, one update interval
\* after the one before.
PipeData(zscore, hedge_ratio) ==
    /\ running
    /\ ticks_left > 0
    /\ ticks_left' = ticks_left - 1
    /\ now' = now + 1
    /\ UNCHANGED <<cfg, active_positions, last_adjustment, adjustment_history,
                   last_call>>
    /\ data_queue' = PutNoWait(data_queue, MarketData(zscore, hedge_ratio))
    /\ UNCHANGED <<running, signal_queue, lock, pc, pending, current_snapshot,
                   broker_orders, setup_updates, raised, warnings, placed>>

\* _signal_thread: one iteration, from data_queue.get to the end of the "with
\* self.lock" block.
PipeSignal(signal) ==
    /\ running
    /\ data_queue # <<>>
    /\ CanAcquire("Signal")
    /\ data_queue' = Tail(data_queue)
    /\ LET data == Head(data_queue)
           rebalancing == IF active_positions # EmptyDict
                          THEN PyramidRequests(SetupsInOrder, signal, data)
                                   \o HedgeRequests(SetupsInOrder, signal, data)
                          ELSE <<>>
       IN  signal_queue' = PutEach(signal_queue,
                                   rebalancing \o SignalRequests(signal, data))
    /\ UNCHANGED <<running, lock, pc, pending, ticks_left, current_snapshot,
                   broker_orders, setup_updates, raised, warnings, placed>>

\* What place_spread_orders was called for, and with what result.
SpreadOrder(request, filled) ==
    [kind |-> request.kind, spread_id |-> request.spread_id,
     zscore |-> request.zscore, filled |-> filled,
     registered |-> request.spread_id \in DOMAIN active_positions]

\* _execute_pyramiding
ExecutePyramiding(request, filled) ==
    /\ placed' = Append(placed, SpreadOrder(request, filled))
    /\ IF filled
       THEN MarkPyramidingExecuted(request.spread_id, request.zscore,
                                   PipeLots[1], PipeLots[2])
       ELSE UNCHANGED rebal_vars

\* _execute_hedge_adjustment: self.trade_executor.place_order is not a method
\* of MT5TradeExecutor; the AttributeError is caught in the method.
ExecuteHedgeAdjustment(request) == UNCHANGED <<rebal_vars, placed>>

\* The spread_id the position tracker gives a new spread.
UsedSpreadIds == {placed[i].spread_id : i \in DOMAIN placed}
NewSpreadId == SelectSeq(SpreadIdsInOrder, LAMBDA id : id \notin UsedSpreadIds)[1]

\* _execute_entry
ExecuteEntry(request, filled) ==
    LET entry == [request EXCEPT !.spread_id = NewSpreadId,
                                 !.zscore = request.data.zscore]
    IN  /\ placed' = Append(placed, SpreadOrder(entry, filled))
        /\ IF filled
           THEN RegisterPosition(entry.spread_id, "LONG", entry.zscore,
                                 request.data.hedge_ratio, PipeLots[1], PipeLots[2])
           ELSE UNCHANGED rebal_vars

\* _execute_exit: every spread whose two positions the broker closed is removed.
ExecuteExit(closed) ==
    /\ active_positions' = [id \in DOMAIN active_positions \ closed |->
                               active_positions[id]]
    /\ last_adjustment' = [id \in DOMAIN last_adjustment \ closed |->
                              last_adjustment[id]]
    /\ last_call' = [op |-> "remove_position", spread_ids |-> closed, time |-> now]
    /\ UNCHANGED <<cfg, adjustment_history, now, placed>>

\* _execution_thread: one iteration, from signal_queue.get to the end of the
\* "with self.lock" block.  go: the request passes the position limit and the
\* risk check.
PipeExecution(go, filled, closed) ==
    /\ running
    /\ signal_queue # <<>>
    /\ CanAcquire("Execution")
    /\ signal_queue' = Tail(signal_queue)
    /\ LET request == Head(signal_queue)
       IN  IF request.kind = "rebalance" THEN ExecutePyramiding(request, filled)
           ELSE IF request.kind = "hedge_adjustment"
           THEN ExecuteHedgeAdjustment(request)
           ELSE IF ~go THEN UNCHANGED <<rebal_vars, placed>>
           ELSE IF request.signal = "LONG_SPREAD" THEN ExecuteEntry(request, filled)
           ELSE ExecuteExit(closed)
    /\ UNCHANGED <<running, data_queue, lock, pc, pending, ticks_left,
                   current_snapshot, broker_orders, setup_updates, raised, warnings>>

PipeDataPut ==
    /\ \E zscore \in PipeZScores, hedge_ratio \in PipeHedgeRatios :
           PipeData(zscore, hedge_ratio)
    /\ UNCHANGED <<exec_vars, rb_vars, setup_vars>>
\* The signal generator is told whether a position is open: it gives an entry
\* signal only when none is, and an exit signal only when one is.
PipeSignalPass ==
    /\ \E signal \in SignalTypes :
           /\ signal = "LONG_SPREAD" => active_positions = EmptyDict
           /\ signal = "CLOSE_LONG" => active_positions # EmptyDict
           /\ PipeSignal(signal)
    /\ UNCHANGED <<exec_vars, rebal_vars, rb_vars, setup_vars>>
PipeExecutionPass ==
    /\ signal_queue # <<>>
    /\ \E go \in BOOLEAN, filled \in BOOLEAN, closed \in SUBSET DOMAIN active_positions :
           /\ (go /\ Head(signal_queue).kind = "signal"
                  /\ Head(signal_queue).signal = "LONG_SPREAD") =>
                  SpreadIds \ UsedSpreadIds # {}
           /\ PipeExecution(go, filled, closed)
    /\ UNCHANGED <<exec_vars, rb_vars, setup_vars>>
PipeNext == PipeDataPut \/ PipeSignalPass \/ PipeExecutionPass
InitPipe ==
    /\ ExecIdle /\ RebalIdle /\ RebalanceStart /\ SetupStart
    /\ Started(MaxPipeSnapshots)

\* ---- orders of any size, on instruments whose limits need not lie on the step
OrderVolumePairs == {<<3, 4>>, <<0, 2>>, <<-1, 2>>, <<2, 0>>, <<2, -3>>}
OrderVolumes == {<<-3, 1>>, <<0, 1>>, <<5, 2>>, <<9, 1>>, <<30, 1>>}
OrderTypes == {"buy", "SELL"}
\* Calls are made until the broker has issued this many tickets.
MaxOrderTickets == 2
OrderInstrumentSpecs ==
    {[known |-> TRUE, step |-> 1, min |-> 1, max |-> 20],
     [known |-> TRUE, step |-> 2, min |-> 3, max |-> 7]}
OrderPlaceSpreadOrders ==
    /\ Cardinality(used_tickets) < MaxOrderTickets
    /\ \E v \in OrderVolumePairs, side \in RSides :
           \E op \in BrokerOutcomes, os \in BrokerOutcomes :
               \E tp \in FreshTickets(op, used_tickets) :
                   \E ts \in FreshTickets(os, used_tickets \cup {tp}) :
                       PlaceSpreadOrders(v[1], v[2], side, op, os, tp, ts)
    /\ UNCHANGED <<rebal_vars, rb_vars, setup_vars, thread_vars>>
OrderPlaceMarketOrder ==
    /\ Cardinality(used_tickets) < MaxOrderTickets
    /\ \E symbol \in Symbols, order_type \in OrderTypes, v \in OrderVolumes :
           \E outcome \in BrokerOutcomes :
               \E ticket \in FreshTickets(outcome, used_tickets) :
                   PlaceMarketOrder(symbol, order_type, v, outcome, ticket)
    /\ UNCHANGED <<rebal_vars, rb_vars, setup_vars, thread_vars>>
OrderNext == OrderPlaceSpreadOrders \/ OrderPlaceMarketOrder

InitOrder ==
    /\ volume_multiplier \in Multipliers
    /\ symbol_info \in [Symbols -> OrderInstrumentSpecs \cup {UnknownSymbol}]
    /\ used_tickets = {}
    /\ requests = <<>>
    /\ call = NoCall
    /\ ret = [kind |-> "none"]
    /\ spreads = {}
    /\ order_call = [op |-> "none"]
    /\ RebalIdle /\ RebalanceStart /\ SetupStart /\ ThreadIdle

LadderNext == LadderRegister \/ LadderRebalanceRegister
\* Both rebalancers are built with the same interval and stop.
InitLadder ==
    /\ ExecIdle
    /\ cfg \in LadderConfigs
    /\ RebalStart
    /\ rb_cfg = [scale_interval |-> cfg.scale_interval, max_zscore |-> cfg.max_zscore,
                 initial_fraction |-> <<33, 100>>]
    /\ rb_active_positions = EmptyDict
    /\ rb_last_call = [op |-> "none"]
    /\ SetupStart
    /\ ThreadIdle

\* ---- the three checks of the HybridRebalancer, between registrations, fills
\* and adjustments
\* check_all_rebalancing: "for spread_id in list(self.active_positions.keys())",
\* the actions and the adjustments that are not None, each list in that order.
RECURSIVE PyramidingActions(_, _)
PyramidingActions(ids, current_zscore) ==
    IF ids = <<>> THEN <<>>
    ELSE LET pyramid_action == CheckPyramidingResult(Head(ids), current_zscore)
         IN  (IF pyramid_action.type = "PYRAMIDING" THEN <<pyramid_action>> ELSE <<>>)
                 \o PyramidingActions(Tail(ids), current_zscore)
RECURSIVE HedgeAdjustments(_, _)
HedgeAdjustments(ids, current_hedge_ratio) ==
    IF ids = <<>> THEN <<>>
    ELSE LET hedge_action == CheckHedgeDriftResult(Head(ids), current_hedge_ratio)
         IN  (IF hedge_action # NoAdjustment THEN <<hedge_action>> ELSE <<>>)
                 \o HedgeAdjustments(Tail(ids), current_hedge_ratio)
CheckAllRebalancing(current_zscore, current_hedge_ratio) ==
    /\ last_call' = [op |-> "check_all_rebalancing",
                     current_zscore |-> current_zscore,
                     current_hedge_ratio |-> current_hedge_ratio,
                     time |-> now,
                     pyramiding_actions |->
                         PyramidingActions(SetupsInOrder, current_zscore),
                     hedge_adjustments |->
                         HedgeAdjustments(SetupsInOrder, current_hedge_ratio)]
    /\ UNCHANGED <<cfg, active_positions, last_adjustment, adjustment_history, now>>

ChecksConfigs ==
    [scale_interval : {100}, max_zscore : {600},
     hedge_drift_threshold : {<<5, 100>>},
     min_absolute_drift : {<<1, 1>>},
     min_adjustment_interval : {1},
     enable_hedge_adjustment : BOOLEAN]
ChecksEntryZScore(side) == IF side = "LONG" THEN -400 ELSE 400
ChecksLots == {<<100, 72>>, <<100, 100>>}
ChecksZScores == {-500, 0, 500}
ChecksHedgeRatios == {<<72, 100>>, <<1, 1>>}
\* The setups are registered before the clock moves, and the ids are given out in
\* order: "s2" is a second setup.
ChecksRegister ==
    /\ now = 0
    /\ \E id \in SpreadIds \ DOMAIN active_positions, side \in RSides, lots \in ChecksLots :
           /\ id = "s2" => ("s1" \in DOMAIN active_positions /\ side = "SHORT")
           /\ RegisterPosition(id, side, ChecksEntryZScore(side), <<72, 100>>,
                               lots[1], lots[2])
    /\ UNCHANGED <<exec_vars, rb_vars, setup_vars, thread_vars>>
ChecksPyramiding ==
    /\ \E id \in SpreadIds, z \in ChecksZScores : CheckPyramiding(id, z)
    /\ UNCHANGED <<exec_vars, rb_vars, setup_vars, thread_vars>>
ChecksHedgeDrift ==
    /\ \E id \in SpreadIds, hr \in ChecksHedgeRatios : CheckHedgeDrift(id, hr)
    /\ UNCHANGED <<exec_vars, rb_vars, setup_vars, thread_vars>>
ChecksAll ==
    /\ \E z \in ChecksZScores, hr \in ChecksHedgeRatios : CheckAllRebalancing(z, hr)
    /\ UNCHANGED <<exec_vars, rb_vars, setup_vars, thread_vars>>
ChecksMarkPyramiding ==
    /\ last_call.op = "check_pyramiding"
    /\ last_call.result.type = "PYRAMIDING"
    /\ MarkPyramidingExecuted(last_call.spread_id, last_call.result.level.zscore, 1, 1)
    /\ UNCHANGED <<exec_vars, rb_vars, setup_vars, thread_vars>>
ChecksMarkHedge ==
    /\ Len(adjustment_history) < MaxAdjustments
    /\ last_call.op = "check_hedge_drift"
    /\ last_call.result # NoAdjustment
    /\ \E q \in ExecutedQuantities :
           MarkHedgeAdjusted(last_call.result.spread_id, last_call.result, q)
    /\ UNCHANGED <<exec_vars, rb_vars, setup_vars, thread_vars>>
ChecksTick ==
    /\ Tick
    /\ UNCHANGED <<exec_vars, rb_vars, setup_vars, thread_vars>>
ChecksNext ==
    \/ ChecksRegister \/ ChecksPyramiding \/ ChecksHedgeDrift \/ ChecksAll
    \/ ChecksMarkPyramiding \/ ChecksMarkHedge \/ ChecksTick
InitChecks ==
    /\ ExecIdle /\ cfg \in ChecksConfigs /\ RebalStart /\ RebalanceStart
    /\ SetupStart /\ ThreadIdle
DriftNext == DriftRegister \/ DriftCheck \/ DriftMarkInFull \/ DriftTick
InitDrift ==
    /\ ExecIdle /\ cfg \in DriftConfigs /\ RebalStart /\ RebalanceStart
    /\ SetupStart /\ ThreadIdle
MarkNext ==
    \/ MarkRegister \/ MarkPyramiding \/ MarkRebalanceRegister \/ MarkRebalanceLevel
InitMark ==
    /\ ExecIdle /\ cfg \in MarkConfigs /\ RebalStart /\ RebalanceStart
    /\ SetupStart /\ ThreadIdle

SetupNext ==
    \/ SetupCreate \/ SetupAddPosition \/ SetupClose \/ SetupRestart \/ SetupTick
VerifyNext ==
    \/ SetupCreate \/ SetupAddPosition \/ BrokerPositionChange \/ SetupVerify
    \/ SetupTick
CloseAllNext ==
    \/ SetupCreate \/ SetupAddPosition \/ BrokerPositionChange \/ SetupCloseAll
    \/ SetupTick
RecoveryNext ==
    \/ SetupCreate \/ SetupAddPosition \/ BrokerPositionChange \/ SetupRecover
    \/ SetupTick

InitExec == ExecInit /\ RebalIdle /\ RebalanceStart /\ SetupStart /\ ThreadIdle
InitHedge == ExecIdle /\ cfg \in HedgeConfigs /\ RebalStart /\ RebalanceStart /\ SetupStart /\ ThreadIdle
InitPyramid == ExecIdle /\ cfg \in PyramidConfigs /\ RebalStart /\ RebalanceStart /\ SetupStart /\ ThreadIdle

InitSetup == ExecIdle /\ RebalIdle /\ RebalanceStart /\ SetupStart /\ ThreadIdle
SpecExec == InitExec /\ [][ExecNext]_vars
SpecHedge == InitHedge /\ [][HedgeNext]_vars
SpecPyramid == InitPyramid /\ [][PyramidNext]_vars
SpecSetup == InitSetup /\ [][SetupNext]_vars
SpecVerify == InitSetup /\ [][VerifyNext]_vars
SpecCloseAll == InitSetup /\ [][CloseAllNext]_vars
SpecRecovery == InitSetup /\ [][RecoveryNext]_vars
SpecLadder == InitLadder /\ [][LadderNext]_vars
SpecOrder == InitOrder /\ [][OrderNext]_vars
SpecMark == InitMark /\ [][MarkNext]_vars
SpecPipe == InitPipe /\ [][PipeNext]_vars
SpecDrift == InitDrift /\ [][DriftNext]_vars
SpecChecks == InitChecks /\ [][ChecksNext]_vars
SpecQueues == InitQueues /\ [][QueuesNext]_vars
SpecWorkers == InitWorkers /\ [][WorkersNext]_vars
\* The scheduler lets every thread run that can, and a broker call returns.
FairWorkers == SpecWorkers /\ \A t \in Threads : WF_vars(Proceed(t) /\ Elsewhere)

-----------------------------------------------------------------------------
(***************************************************************************)
(* Claims about place_spread_orders (checked under SpecExec)               *)
(***************************************************************************)

PrimaryRequests == {i \in DOMAIN requests : requests[i].symbol = PRIMARY}
SecondaryRequests == {i \in DOMAIN requests : requests[i].symbol = SECONDARY}
PrimaryFilled == \E i \in PrimaryRequests : requests[i].outcome = "done"
SecondaryFilled == \E i \in SecondaryRequests : requests[i].outcome = "done"
ReturnedSpreadId == ret.kind = "return" /\ ret.spread_id # NoSpreadId

\* C1: within one call a secondary order reaches the broker only after a primary
\* order that the broker filled; a call whose primary order fails sends no
\* secondary order.
C1_SecondaryOnlyAfterPrimaryFilled ==
    /\ \A i \in SecondaryRequests :
           \E j \in PrimaryRequests : j < i /\ requests[j].outcome = "done"
    /\ ~PrimaryFilled => SecondaryRequests = {}

\* A call whose primary order the broker rejected, on instruments it knows.
C1_Witness ==
    /\ call.made
    /\ symbol_info[SECONDARY].known
    /\ Len(requests) = 1
    /\ requests[1].symbol = PRIMARY
    /\ requests[1].outcome = "rejected"

\* C2: a non-null spread_id is returned exactly when both orders were filled; it
\* is then "<primary ticket>-<secondary ticket>", so that spread ids of different
\* ticket pairs differ; primary filled and secondary failed returns both leg
\* results and no spread_id.
C2_SpreadIdIffBothFilled ==
    /\ ReturnedSpreadId <=> (PrimaryFilled /\ SecondaryFilled)
    /\ ReturnedSpreadId =>
           /\ ret.gold_result.order_ticket \in used_tickets
           /\ ret.silver_result.order_ticket \in used_tickets
           /\ ret.spread_id = Digits(ret.gold_result.order_ticket) \o <<"-">>
                                  \o Digits(ret.silver_result.order_ticket)
    /\ \A a \in spreads, b \in spreads :
           a.spread_id = b.spread_id =>
               a.gold_ticket = b.gold_ticket /\ a.silver_ticket = b.silver_ticket
    /\ (PrimaryFilled /\ ~SecondaryFilled) =>
           /\ ret.kind = "return"
           /\ ret.spread_id = NoSpreadId
           /\ ret.gold_result.success
           /\ ~ret.silver_result.success

\* Two spreads have been opened, the last call being the second.
C2_Witness ==
    /\ ReturnedSpreadId
    /\ Cardinality(spreads) = 2

\* C3 (as claimed): a call whose primary order the broker rejects returns the pair
\* (failed primary, skipped secondary) with no spread id, and raises nothing.
C3_PrimaryRejectedIsReturned ==
    (call.made /\ Len(requests) = 1 /\ requests[1].symbol = PRIMARY
               /\ requests[1].outcome = "rejected")
        => /\ ret.kind = "return"
           /\ ret.spread_id = NoSpreadId
           /\ ~ret.gold_result.success
           /\ ~ret.silver_result.success

\* The multiples of step nearest to n/d (two of them at a tie), clamped to
\* [min, max]: what "quantize" may yield.
Nearest(n, d, info) ==
    {Max(info.min, Min(info.max, k * info.step)) :
        k \in {j \in 0 .. (n \div (d * info.step)) + 1 :
                  2 * Abs(j * info.step * d - n) <= info.step * d}}

\* C4: with primary_raw > 0 the primary volume sent is quantize(primary_raw * m)
\* and the secondary volume sent is quantize(that volume * secondary_raw /
\* primary_raw); for raw lots 0.01 / 0.10, both steps 0.01 and m = 1 the volumes
\* are 0.01 and 0.10.
C4_SecondaryFromQuantizedPrimary ==
    (call.made /\ call.gold_volume > 0) =>
        /\ \A i \in PrimaryRequests :
               requests[i].volume \in
                   Nearest(call.gold_volume * volume_multiplier[1],
                           volume_multiplier[2], symbol_info[PRIMARY])
        /\ \A i \in SecondaryRequests :
               requests[i].volume \in
                   Nearest(requests[1].volume * call.silver_volume,
                           call.gold_volume, symbol_info[SECONDARY])
        /\ (/\ call.gold_volume = 1 /\ call.silver_volume = 10
            /\ volume_multiplier = <<1, 1>>
            /\ symbol_info[PRIMARY].step = 1 /\ symbol_info[SECONDARY].step = 1
            /\ Len(requests) = 2)
               => requests[1].volume = 1 /\ requests[2].volume = 10

\* A call that sent both orders, where rounding the raw secondary volume on its
\* own would have given another volume than the one sent.
C4_Witness ==
    /\ call.made /\ call.gold_volume > 0
    /\ Len(requests) = 2
    /\ requests[2].volume \notin
           Nearest(call.silver_volume * volume_multiplier[1], volume_multiplier[2],
                   symbol_info[SECONDARY])

-----------------------------------------------------------------------------
(***************************************************************************)
(* Claims about the pyramiding ladder (checked under SpecPyramid)          *)
(***************************************************************************)

\* level is an unexecuted level of the ladder and every level before it in the
\* ladder is executed.
IsFirstUnexecuted(levels, level) ==
    \E i \in DOMAIN levels :
        /\ levels[i] = level
        /\ ~levels[i].executed
        /\ \A j \in 1 .. i - 1 : levels[j].executed

PyramidingReturned ==
    last_call.op = "check_pyramiding" /\ last_call.result.type = "PYRAMIDING"
RebalanceReturned ==
    rb_last_call.op = "check_rebalance_needed" /\ rb_last_call.result.type = "REBALANCE"

\* C5: the level check_pyramiding (check_rebalance_needed) returns is the first
\* unexecuted level of the setup's ladder, whatever the current z-score; a LONG
\* setup entered at -2.0 with nothing else executed, checked at or beyond -3.0,
\* gets the -2.5 level.
C5_OnlyFirstUnexecutedLevelFires ==
    /\ PyramidingReturned =>
           IsFirstUnexecuted(active_positions[last_call.spread_id].levels,
                             last_call.result.level)
    /\ RebalanceReturned =>
           IsFirstUnexecuted(rb_active_positions[rb_last_call.spread_id].levels,
                             rb_last_call.result.level)
    /\ (/\ last_call.op = "check_pyramiding"
        /\ last_call.spread_id \in DOMAIN active_positions
        /\ active_positions[last_call.spread_id].side = "LONG"
        /\ active_positions[last_call.spread_id].entry_zscore = -400
        /\ active_positions[last_call.spread_id].total_executed = 1
        /\ last_call.current_zscore <= -600)
           => /\ PyramidingReturned
              /\ last_call.result.level.zscore = -500

\* Both rebalancers were asked about a LONG setup when the z-score had passed two
\* unexecuted levels (-2.5 and -3.0) at once, and answered.
C5_Witness ==
    /\ PyramidingReturned
    /\ last_call.current_zscore = -700
    /\ \E i \in DOMAIN active_positions[last_call.spread_id].levels :
           LET level == active_positions[last_call.spread_id].levels[i]
           IN  ~level.executed /\ level.zscore = -600
    /\ last_call.result.level.zscore = -500
    /\ RebalanceReturned
    /\ rb_last_call.current_zscore = -700
    /\ rb_last_call.result.level.zscore = -500
    /\ \E i \in DOMAIN rb_active_positions[rb_last_call.spread_id].levels :
           LET level == rb_active_positions[rb_last_call.spread_id].levels[i]
           IN  ~level.executed /\ level.zscore = -600

-----------------------------------------------------------------------------
(***************************************************************************)
(* Claims about the hedge-drift adjustment (checked under SpecHedge)       *)
(***************************************************************************)

\* The last call was check_hedge_drift on a registered setup.
HedgeChecked ==
    /\ last_call.op = "check_hedge_drift"
    /\ last_call.spread_id \in DOMAIN active_positions
CheckedSetup == active_positions[last_call.spread_id]
AdjustmentReturned == last_call.op = "check_hedge_drift" /\ last_call.result # NoAdjustment

\* With h = n/d the hedge ratio of the call: the desired secondary size and the
\* drift, both as numerators over d.
DesiredNum == CheckedSetup.gold_lots * last_call.current_hedge_ratio[1]
DriftNum == DesiredNum - CheckedSetup.silver_lots * last_call.current_hedge_ratio[2]
\* pct_drift >= hedge_drift_threshold
PctExceeded ==
    Abs(DriftNum) * cfg.hedge_drift_threshold[2]
        >= cfg.hedge_drift_threshold[1] * DesiredNum
\* |drift| >= min_absolute_drift
AbsExceeded ==
    Abs(DriftNum) * cfg.min_absolute_drift[2]
        >= cfg.min_absolute_drift[1] * last_call.current_hedge_ratio[2]
DriftTrigger == DesiredNum # 0 /\ (PctExceeded \/ AbsExceeded)
\* The setup was cooling down when the call was made.
CoolingAtCall ==
    last_call.time - last_adjustment[last_call.spread_id] < cfg.min_adjustment_interval

\* C6: for a registered setup, adjustment enabled, not cooling down, desired
\* secondary size non-zero, check_hedge_drift returns an adjustment exactly when
\* pct_drift >= hedge_drift_threshold or |drift| >= min_absolute_drift.
C6_AdjustmentIffEitherThreshold ==
    (HedgeChecked /\ cfg.enable_hedge_adjustment /\ ~CoolingAtCall /\ DesiredNum # 0)
        => (AdjustmentReturned <=> (PctExceeded \/ AbsExceeded))

\* The percentage threshold alone was exceeded (drift under 0.01 lot) and an
\* adjustment came back.
C6_Witness ==
    /\ HedgeChecked /\ cfg.enable_hedge_adjustment /\ ~CoolingAtCall
    /\ DesiredNum # 0
    /\ PctExceeded /\ ~AbsExceeded
    /\ AdjustmentReturned

\* C7: a returned adjustment is always a BUY: of |drift| lots of the secondary
\* instrument when drift > 0, of |drift| / current_hedge_ratio lots of the primary
\* instrument when drift < 0.
C7_AdjustmentsOnlyBuy ==
    AdjustmentReturned =>
        LET adjustment == last_call.result
            h == last_call.current_hedge_ratio
        IN  /\ adjustment.action = "BUY"
            /\ DriftNum > 0 =>
                   /\ adjustment.symbol = SECONDARY
                   /\ adjustment.quantity[1] * h[2] = DriftNum * adjustment.quantity[2]
            /\ DriftNum < 0 =>
                   /\ adjustment.symbol = PRIMARY
                   /\ adjustment.quantity[1] * h[1] = (-DriftNum) * adjustment.quantity[2]

\* The secondary leg exceeded its target and a purchase of the primary came back.
C7_Witness ==
    /\ AdjustmentReturned
    /\ DriftNum < 0
    /\ last_call.result.symbol = PRIMARY

\* C8 (as claimed): mark_hedge_adjusted adds executed_quantity to the lots of the
\* leg the adjustment traded and leaves the other leg's lots unchanged.
C8_ApplyAddsToTradedLeg ==
    (last_call.op = "mark_hedge_adjusted" /\ last_call.applied) =>
        LET before == last_call.before
            after == active_positions[last_call.spread_id]
            q == last_call.executed_quantity
        IN  IF last_call.adjustment.symbol = SECONDARY
            THEN /\ after.silver_lots = before.silver_lots + q
                 /\ after.gold_lots = before.gold_lots
            ELSE /\ after.gold_lots = before.gold_lots + q
                 /\ after.silver_lots = before.silver_lots

\* The last call is the second of two consecutive check_hedge_drift calls on one
\* setup, the first of which returned an adjustment, less than
\* min_adjustment_interval apart, the drift trigger satisfied now.
SecondCheckWithinInterval ==
    /\ HedgeChecked /\ cfg.enable_hedge_adjustment
    /\ last_call.prev_time # NoTime
    /\ last_call.time - last_call.prev_time < cfg.min_adjustment_interval
    /\ DriftTrigger

\* C9 (as claimed): the second of two such calls returns none.
C9_SecondConsecutiveCheckReturnsNone ==
    SecondCheckWithinInterval => ~AdjustmentReturned

\* C9 (amended): the second of two such calls returns none when the adjustment the
\* first one returned was executed and marked (mark_hedge_adjusted) in between.
C9_NoneAfterExecutedAdjustment ==
    (SecondCheckWithinInterval /\ last_call.prev_executed) => ~AdjustmentReturned

\* Such a second call, after the first one's adjustment was marked.
C9_Witness ==
    /\ SecondCheckWithinInterval
    /\ last_call.prev_executed
    /\ ~AdjustmentReturned

\* C10 (as claimed): a setup is cooling down exactly during the
\* min_adjustment_interval that follows its last executed adjustment; one with no
\* executed adjustment is not cooling down.
C10_CoolingOnlyAfterExecutedAdjustment ==
    (HedgeChecked /\ cfg.enable_hedge_adjustment /\ DriftTrigger) =>
        (~AdjustmentReturned <=>
            /\ CheckedSetup.last_adjustment_time # NoTime
            /\ last_call.time - CheckedSetup.last_adjustment_time
                   < cfg.min_adjustment_interval)

\* C10 (amended): a setup is cooling down exactly during the
\* min_adjustment_interval that follows the later of its registration and its
\* last executed adjustment; executions for other setups do not matter.
C10_CoolingSinceRegistrationOrAdjustment ==
    (HedgeChecked /\ cfg.enable_hedge_adjustment) =>
        LET since == Max(CheckedSetup.entry_time, CheckedSetup.last_adjustment_time)
            cooling == last_call.time - since < cfg.min_adjustment_interval
        IN  /\ cooling => ~AdjustmentReturned
            /\ (~cooling /\ DriftTrigger) => AdjustmentReturned

\* A setup past its own interval gets an adjustment while another setup is inside
\* the interval that follows its executed adjustment.
C10_Witness ==
    /\ HedgeChecked /\ cfg.enable_hedge_adjustment
    /\ AdjustmentReturned
    /\ \E other \in DOMAIN active_positions \ {last_call.spread_id} :
           /\ active_positions[other].last_adjustment_time # NoTime
           /\ last_call.time - active_positions[other].last_adjustment_time
                  < cfg.min_adjustment_interval

\* check_hedge_drift was called, adjustment enabled and the setup not cooling down,
\* with the default thresholds (5 %, 0.01 lot), on a setup holding 0.01 primary and
\* 0.01 secondary lots, at hedge ratio 0.7179.
SmallPositionChecked ==
    /\ HedgeChecked /\ cfg.enable_hedge_adjustment /\ ~CoolingAtCall
    /\ cfg.hedge_drift_threshold = <<5, 100>>
    /\ cfg.min_absolute_drift = <<1, 1>>
    /\ CheckedSetup.gold_lots = 1
    /\ CheckedSetup.silver_lots = 1
    /\ last_call.current_hedge_ratio = <<7179, 10000>>

\* C11 (as claimed): that call returns none.
C11_SmallPositionReturnsNone ==
    SmallPositionChecked => ~AdjustmentReturned

\* C11 (amended): that call returns an adjustment, a BUY of 0.002821 / 0.7179 lots
\* of the primary: the drift is 39 % of the desired secondary size, which reaches
\* the 5 % threshold although the drift is under 0.01 lot.
C11_SmallPositionReturnsPrimaryBuy ==
    SmallPositionChecked =>
        /\ AdjustmentReturned
        /\ last_call.result.action = "BUY"
        /\ last_call.result.symbol = PRIMARY
        /\ last_call.result.quantity[1] * 7179 = 2821 * last_call.result.quantity[2]

\* The call was made and answered.
C11_Witness ==
    /\ SmallPositionChecked
    /\ last_call.result # NoAdjustment
    /\ last_call.result.drift_pct[1] * 7179 = 2821 * last_call.result.drift_pct[2]


-----------------------------------------------------------------------------
(***************************************************************************)
(* C12                                                                     *)
(***************************************************************************)

\* The last call was verify_setup_on_mt5 on a setup the tracker holds.
VerifiedSetup == setup_call.op = "verify_setup_on_mt5" /\ setup_call.known
\* The position list the query gave: the open tickets, or nothing when the terminal
\* gave no answer.
PositionList == IF setup_call.answered THEN setup_call.live ELSE {}
Absent(ticket) == ticket \notin PositionList

\* C12: verify_setup_on_mt5 returns as missing exactly the tickets of the setup's
\* legs, primary and secondary of every leg in order, that are not in the broker's
\* position list, and all_legs_found is true exactly when that list is empty; so
\* one ticket absent out of four gives all_legs_found = False, and with no ticket
\* present all four are returned.
C12_MissingAreTheAbsentTickets ==
    VerifiedSetup =>
        /\ setup_call.result.missing = SelectSeq(setup_call.tickets, Absent)
        /\ setup_call.result.all_found = (setup_call.result.missing = <<>>)
        /\ (\E i \in 1 .. Len(setup_call.tickets) : Absent(setup_call.tickets[i]))
               => ~setup_call.result.all_found
        /\ (\A i \in 1 .. Len(setup_call.tickets) : Absent(setup_call.tickets[i]))
               => setup_call.result.missing = setup_call.tickets

\* A setup of two legs, tickets 1 2 3 4, of which only the secondary ticket 4 is
\* not open at the broker: the check answers False and names that ticket.
C12_Witness ==
    /\ VerifiedSetup
    /\ setup_call.answered
    /\ setup_call.tickets = <<1, 2, 3, 4>>
    /\ setup_call.live = {1, 2, 3}
    /\ setup_call.result = [all_found |-> FALSE, missing |-> <<4>>]

-----------------------------------------------------------------------------
(***************************************************************************)
(* C13                                                                     *)
(***************************************************************************)

\* The last call was close_all_positions_in_setup on a setup with legs.
ClosedAllOf == setup_call.op = "close_all_positions_in_setup" /\ setup_call.tickets # <<>>
\* The tickets of that setup that were open at the broker when the call began.
PresentTickets ==
    {setup_call.tickets[i] : i \in 1 .. Len(setup_call.tickets)} \cap setup_call.live
OrderSent(ticket) ==
    \E i \in 1 .. Len(setup_call.orders) : setup_call.orders[i].ticket = ticket
ClosedOk(ticket) ==
    \E i \in 1 .. Len(setup_call.orders) :
        /\ setup_call.orders[i].ticket = ticket
        /\ setup_call.orders[i].outcome = "done"

\* C13: close_all_positions_in_setup takes a ticket that is not open at the broker
\* as already closed: it sends a close order for every ticket that is open, and
\* returns True exactly when every ticket that was open has been closed.
C13_TrueIffEveryPresentTicketClosed ==
    ClosedAllOf =>
        /\ \A ticket \in PresentTickets : OrderSent(ticket)
        /\ setup_call.result = (\A ticket \in PresentTickets : ClosedOk(ticket))

-----------------------------------------------------------------------------
(***************************************************************************)
(* C14                                                                     *)
(***************************************************************************)

\* The last call was recover_or_close_all.
Reconciled == setup_call.op = "recover_or_close_all"
Prompted(setup_id) ==
    \E i \in 1 .. Len(setup_call.prompted) : setup_call.prompted[i] = setup_id
\* The operator was shown the setup and chose to close all its positions.
ChoseCloseAll(setup_id) == Prompted(setup_id) /\ setup_call.choice[setup_id] = "1"
\* Every close order sent for the setup was filled.
EveryOrderDone(setup_id) ==
    \A i \in 1 .. Len(setup_call.orders) :
        setup_call.orders[i].setup_id = setup_id => setup_call.orders[i].outcome = "done"
\* The setup as the run left it: closed with exit_zscore 0.0, out of the index.
LeftClosed(setup_id) ==
    /\ setup_id \notin DOMAIN setup_call.after.active
    /\ setup_id \notin DOMAIN setup_call.after.index.active_setups
    /\ setup_call.after.files[setup_id].status = "CLOSED"
    /\ setup_call.after.files[setup_id].exit_zscore = 0

\* C14: when the operator chooses close-all for a mismatched setup and every ticket
\* of it still open at the broker is closed, the run leaves the setup CLOSED with
\* exit_zscore 0.0 and out of the index of active setups.
C14_CloseAllLeavesSetupClosed ==
    Reconciled =>
        \A setup_id \in DOMAIN setup_call.before :
            (ChoseCloseAll(setup_id) /\ EveryOrderDone(setup_id)) => LeftClosed(setup_id)

-----------------------------------------------------------------------------
(***************************************************************************)
(* C15                                                                     *)
(***************************************************************************)

IsPrefix(s, u) == Len(s) <= Len(u) /\ s = SubSeq(u, 1, Len(s))
\* The run left the setup as it found it, in memory and on disk.
Untouched(setup_id) ==
    /\ setup_id \in DOMAIN setup_call.after.active
    /\ setup_call.after.active[setup_id] = setup_call.before[setup_id]
    /\ setup_call.after.files[setup_id] = ToDict(setup_call.before[setup_id])

\* C15: in a reconciliation run a close order is sent only for a setup for which
\* the operator chose close-all, and only such a setup can change (status, legs);
\* the setups that passed the check are left as they were; every mismatched setup
\* is shown to the operator, in the order of the check, until the operator aborts
\* (a run that returns has shown them all).
C15_NothingWithoutOperatorDecision ==
    Reconciled =>
        /\ \A i \in 1 .. Len(setup_call.orders) :
               ChoseCloseAll(setup_call.orders[i].setup_id)
        /\ \A setup_id \in DOMAIN setup_call.before :
               ~ChoseCloseAll(setup_id) => Untouched(setup_id)
        /\ \A i \in 1 .. Len(setup_call.checked.valid) :
               /\ ~Prompted(setup_call.checked.valid[i])
               /\ Untouched(setup_call.checked.valid[i])
        /\ IsPrefix(setup_call.prompted, setup_call.checked.invalid)
        /\ setup_call.kind = "return" => setup_call.prompted = setup_call.checked.invalid
        /\ setup_call.kind = "exit" =>
               setup_call.choice[setup_call.prompted[Len(setup_call.prompted)]] = "3"

\* A run over a valid setup (tickets 1, 2 open) and a mismatched one (ticket 3
\* open, 4 gone): the operator chooses close-all for the second, an order goes out
\* for ticket 3, the first setup is not touched.
C15_Witness ==
    /\ Reconciled
    /\ setup_call.kind = "return"
    /\ setup_call.checked = [valid |-> <<0>>, invalid |-> <<1>>]
    /\ ChoseCloseAll(1)
    /\ Len(setup_call.orders) = 1
    /\ setup_call.orders[1].ticket = 3
    /\ Untouched(0)

-----------------------------------------------------------------------------
(***************************************************************************)
(* C16                                                                     *)
(***************************************************************************)

\* The operator was shown the setup and chose to keep it.
ChoseKeep(setup_id) == Prompted(setup_id) /\ setup_call.choice[setup_id] = "2"
IsInvalid(setup_id) ==
    \E i \in 1 .. Len(setup_call.checked.invalid) :
        setup_call.checked.invalid[i] = setup_id

\* C16: a mismatched setup the operator keeps stays ACTIVE with its legs as they
\* were, and the next run, made against the same broker positions, finds it
\* mismatched again with the same missing tickets.
C16_KeptSetupStaysMismatched ==
    Reconciled =>
        /\ \A setup_id \in DOMAIN setup_call.before :
               ChoseKeep(setup_id) =>
                   /\ Untouched(setup_id)
                   /\ setup_call.after.active[setup_id].status = "ACTIVE"
                   /\ setup_call.after.active[setup_id].positions
                          = setup_call.before[setup_id].positions
        /\ \A setup_id \in DOMAIN setup_call.kept_before :
               /\ IsInvalid(setup_id)
               /\ setup_call.missing[setup_id] = setup_call.kept_before[setup_id]

\* Two runs in a row against ticket 1 open and ticket 2 gone; in the first the
\* operator kept the setup, and the second shows it again with ticket 2 missing.
C16_Witness ==
    /\ Reconciled
    /\ setup_call.live = {1}
    /\ DOMAIN setup_call.kept_before = {0}
    /\ setup_call.kept_before[0] = <<2>>
    /\ IsInvalid(0)
    /\ Prompted(0)
    /\ setup_call.missing[0] = <<2>>
    /\ setup_call.before[0].status = "ACTIVE"

-----------------------------------------------------------------------------
(***************************************************************************)
(* C17                                                                     *)
(***************************************************************************)

\* The run came back with a list of setups.
ReconciledAndReturned == Reconciled /\ setup_call.kind = "return"
InResult(setup_id) ==
    \E i \in 1 .. Len(setup_call.result) : setup_call.result[i] = setup_id
\* Every ticket of every leg of the setup was open at the broker.
AllTicketsOpen(setup_id) ==
    \A i \in 1 .. Len(setup_call.before[setup_id].positions) :
        /\ setup_call.before[setup_id].positions[i].mt5_primary_ticket \in setup_call.live
        /\ setup_call.before[setup_id].positions[i].mt5_secondary_ticket \in setup_call.live

\* C17: recover_or_close_all returns the ACTIVE setups that passed the check,
\* followed by the mismatched setups the operator kept; a setup for which close-all
\* was chosen is never in the result.
C17_ResultIsValidPlusKept ==
    ReconciledAndReturned =>
        /\ setup_call.result
               = setup_call.checked.valid \o SelectSeq(setup_call.checked.invalid, ChoseKeep)
        /\ \A setup_id \in DOMAIN setup_call.before :
               InResult(setup_id) <=>
                   /\ setup_call.before[setup_id].status = "ACTIVE"
                   /\ AllTicketsOpen(setup_id) \/ ChoseKeep(setup_id)
        /\ \A setup_id \in DOMAIN setup_call.before :
               ChoseCloseAll(setup_id) => ~InResult(setup_id)

\* Setup 0 has a ticket missing and is kept, setup 1 has both tickets open: the
\* run returns setup 1, then setup 0.
C17_Witness ==
    /\ ReconciledAndReturned
    /\ DOMAIN setup_call.before = {0, 1}
    /\ ~AllTicketsOpen(0)
    /\ ChoseKeep(0)
    /\ setup_call.before[1].positions # <<>>
    /\ AllTicketsOpen(1)
    /\ setup_call.result = <<1, 0>>

-----------------------------------------------------------------------------
(***************************************************************************)
(* C18                                                                     *)
(***************************************************************************)

\* The last call was close_setup on a setup the tracker held.
ClosedActiveSetup == setup_call.op = "close_setup" /\ setup_call.was_active
\* The setup is in neither form of the active index, and its own file says CLOSED
\* with the exit z-score of the call.
ClosedOnDisk ==
    /\ setup_call.setup_id \notin DOMAIN active_setups
    /\ setups_file.exists
    /\ setup_call.setup_id \notin DOMAIN setups_file.active_setups
    /\ setup_call.setup_id \in DOMAIN setup_files
    /\ setup_files[setup_call.setup_id].status = "CLOSED"
    /\ setup_files[setup_call.setup_id].exit_zscore = setup_call.exit_zscore
\* A step takes no per-setup file away.
NoRecordDeleted == DOMAIN setup_files \subseteq DOMAIN setup_files'

-----------------------------------------------------------------------------
(***************************************************************************)
(* C19                                                                     *)
(***************************************************************************)

\* The last call was create_setup.
CreatedSetup == setup_call.op = "create_setup"

\* C19: create_setup returns an id that no setup created before it has (every
\* setup created so far has its file), and replaces neither an entry of the
\* in-memory dict nor a per-setup file, whenever the calls are made.
C19_CreateNeverReusesAnId ==
    CreatedSetup =>
        /\ setup_call.result \notin setup_call.files_before
        /\ setup_call.result \notin setup_call.active_before

-----------------------------------------------------------------------------
(***************************************************************************)
(* C20                                                                     *)
(***************************************************************************)

\* The legs of the active setups: <<setup_id, index>>.
Legs ==
    {leg \in (DOMAIN active_setups) \X (1 .. MaxLegs + 1) :
         leg[2] <= Len(active_setups[leg[1]].positions)}
LegAt(leg) == active_setups[leg[1]].positions[leg[2]]
LegTickets(leg) == {LegAt(leg).mt5_primary_ticket, LegAt(leg).mt5_secondary_ticket}

\* C20: in every state of the tracker a leg belongs to one setup only, and no
\* broker ticket, primary or secondary, is in more than one leg of the active
\* setups.
C20_TicketsInOneLegOnly ==
    \A leg \in Legs, other \in Legs :
        leg # other =>
            /\ LegTickets(leg) \cap LegTickets(other) = {}
            /\ LegAt(leg).spread_id # LegAt(other).spread_id

-----------------------------------------------------------------------------
(***************************************************************************)
(* C21                                                                     *)
(***************************************************************************)

\* The ids setups.json lists (none while the file does not exist).
IndexedIds == IF setups_file.exists THEN DOMAIN setups_file.active_setups ELSE {}

-----------------------------------------------------------------------------
(***************************************************************************)
(* C22                                                                     *)
(***************************************************************************)

ZScoresOf(levels) == [i \in DOMAIN levels |-> levels[i].zscore]
\* The z-scores go strictly down (LONG) or strictly up (any other side) and end
\* on the stop: -max_zscore or +max_zscore.
StrictLadder(levels, side, max_zscore) ==
    /\ Len(levels) >= 1
    /\ \A i \in 1 .. Len(levels) - 1 :
           IF side = "LONG" THEN levels[i].zscore > levels[i + 1].zscore
           ELSE levels[i].zscore < levels[i + 1].zscore
    /\ \A i, j \in DOMAIN levels : i # j => levels[i].zscore # levels[j].zscore
    /\ levels[Len(levels)].zscore = IF side = "LONG" THEN -max_zscore ELSE max_zscore
\* The example of the specification: LONG from -2.0 in steps of 0.5 to 3.5.
ExampleLadder(position, c) ==
    (/\ position.side = "LONG"
     /\ position.entry_zscore = -400
     /\ c.scale_interval = 100
     /\ c.max_zscore = 700) => ZScoresOf(position.levels) = <<-400, -500, -600, -700>>

\* C22: the ladder calculate_pyramiding_levels and calculate_rebalance_levels give
\* a registered setup is strictly monotonic without duplicates, decreasing for
\* LONG and increasing for SHORT, and its last level is -max_zscore (LONG) or
\* +max_zscore (SHORT); LONG from -2.0 with interval 0.5 and max 3.5 gives exactly
\* -2.0, -2.5, -3.0, -3.5.
C22_LadderStrictlyMonotonic ==
    /\ \A id \in DOMAIN active_positions :
           /\ StrictLadder(active_positions[id].levels, active_positions[id].side,
                           cfg.max_zscore)
           /\ ExampleLadder(active_positions[id], cfg)
    /\ \A id \in DOMAIN rb_active_positions :
           /\ StrictLadder(rb_active_positions[id].levels, rb_active_positions[id].side,
                           rb_cfg.max_zscore)
           /\ ExampleLadder(rb_active_positions[id], rb_cfg)

\* Both rebalancers hold a LONG setup entered at -2.0 with interval 0.5 and stop
\* 3.5, each with the four levels of the example.
C22_Witness ==
    /\ cfg.scale_interval = 100 /\ cfg.max_zscore = 700
    /\ DOMAIN active_positions = {"s1"} /\ DOMAIN rb_active_positions = {"s1"}
    /\ active_positions["s1"].side = "LONG"
    /\ ZScoresOf(active_positions["s1"].levels) = <<-400, -500, -600, -700>>
    /\ rb_active_positions["s1"].side = "LONG"
    /\ ZScoresOf(rb_active_positions["s1"].levels) = <<-400, -500, -600, -700>>
-----------------------------------------------------------------------------
(***************************************************************************)
(* C23                                                                     *)
(***************************************************************************)

\* The indices of the levels marked executed.
ExecutedLevels(levels) == {i \in DOMAIN levels : levels[i].executed}
\* Level 1 alone is executed and its trigger is the entry z-score.
EntryLevelAlone(position) ==
    /\ ExecutedLevels(position.levels) = {1}
    /\ position.levels[1].zscore = position.entry_zscore

\* C23: right after register_position exactly one level of the ladder is marked
\* executed, and it is the entry level: the first level, whose trigger z-score is
\* the entry z-score of the setup; every other level is unexecuted.
C23_OnlyEntryLevelExecuted ==
    /\ last_call.op = "register_position" =>
           EntryLevelAlone(active_positions[last_call.spread_id])
    /\ rb_last_call.op = "register_position" =>
           EntryLevelAlone(rb_active_positions[rb_last_call.spread_id])
-----------------------------------------------------------------------------
(***************************************************************************)
(* C24                                                                     *)
(***************************************************************************)

\* The last call was place_spread_orders / place_market_order.
SpreadOrdered == call.made
MarketOrdered == order_call.op = "place_market_order"
\* place_spread_orders returned two successful results.
SpreadAccepted ==
    /\ ret.kind = "return"
    /\ ret.gold_result.success /\ ret.silver_result.success

\* C24: place_spread_orders and place_market_order called with zero or negative
\* lots are rejected at the call and send no order to the broker: the size asked
\* for is never replaced by the instrument's minimum lot or by the fallback hedge
\* ratio.
C24_NonPositiveLotsRejected ==
    /\ (SpreadOrdered /\ (call.gold_volume <= 0 \/ call.silver_volume <= 0)) =>
           (requests = <<>> /\ ~SpreadAccepted)
    /\ (MarketOrdered /\ order_call.volume[1] <= 0) =>
           (requests = <<>> /\ ~order_call.result.success)

-----------------------------------------------------------------------------
(***************************************************************************)
(* C25                                                                     *)
(***************************************************************************)

\* C25: quantize (round to the nearest multiple of step, then clamp to
\* [min_lot, max_lot]) is idempotent: the volume an order was sent with, put
\* through the same rounding and clamping again, stays what it is, for every
\* step > 0 and min_lot <= max_lot.
C25_QuantizeIdempotent ==
    \A i \in DOMAIN requests :
        LET info == symbol_info[requests[i].symbol]
            volume == requests[i].volume
        IN  (info.step > 0 /\ info.min <= info.max) =>
                /\ SpreadOrdered => Quantize(volume, 1, info) = volume
                /\ MarketOrdered => AdjustVolume(volume, 1, info) = volume
-----------------------------------------------------------------------------
(***************************************************************************)
(* C30                                                                     *)
(***************************************************************************)

\* The last call was check_hedge_drift on a registered setup whose desired
\* secondary size, primary_lots * current_hedge_ratio, is zero.
ZeroTargetChecked == HedgeChecked /\ DesiredNum = 0

\* C30: check_hedge_drift returns None whenever the desired secondary size is
\* zero (primary_lots = 0 or current_hedge_ratio = 0), and the call changes
\* nothing in the rebalancer: positions, cooldown clock, history, settings.
C30_ZeroTargetReturnsNone ==
    /\ [](ZeroTargetChecked => last_call.result = NoAdjustment)
    /\ [][(ZeroTargetChecked' /\ last_call' # last_call) =>
              UNCHANGED <<cfg, active_positions, last_adjustment,
                          adjustment_history>>]_vars

\* Checks with a zero target made outside the cooldown, one on a setup without
\* primary lots and one with a hedge ratio of zero.
C30_Witness ==
    /\ ZeroTargetChecked
    /\ cfg.enable_hedge_adjustment
    /\ ~CoolingAtCall
    /\ CheckedSetup.gold_lots = 0
    /\ last_call.current_hedge_ratio # <<0, 1>>
    /\ \E id \in DOMAIN active_positions :
           /\ active_positions[id].gold_lots > 0
           /\ active_positions[id].silver_lots > 0
-----------------------------------------------------------------------------
(***************************************************************************)
(* C26                                                                     *)
(***************************************************************************)

\* The data thread leaves its put, and the signal thread makes one of its puts,
\* with the queue full.
DataPutOnFull == pc["Data"] = "put" /\ pc'["Data"] # "put" /\ Full(data_queue)
SignalPutOnFull ==
    pc["Signal"] = "put" /\ pending > 0 /\ pending' # pending /\ Full(signal_queue)
\* Everything but the queues' log, the position of the threads and the count of
\* requests still to queue.
RestOfSystem ==
    <<running, data_queue, signal_queue, lock, ticks_left, current_snapshot,
      broker_orders, setup_updates, raised, exec_vars, rebal_vars, rb_vars, setup_vars>>

\* C26: data_queue and signal_queue never hold more than 10 items; a put into a
\* full queue drops the item, the producer goes on with its loop (the data thread
\* to publishing the snapshot, the signal thread to its next request) and nothing
\* else in the system changes.
C26_QueuesBoundedDropOnFull ==
    /\ [](Len(data_queue) <= 10 /\ Len(signal_queue) <= 10)
    /\ [][DataPutOnFull =>
              /\ pc' = [pc EXCEPT !["Data"] = "publish"]
              /\ pending' = pending
              /\ UNCHANGED RestOfSystem]_vars
    /\ [][SignalPutOnFull =>
              /\ pc' = pc
              /\ pending' = pending - 1
              /\ UNCHANGED RestOfSystem]_vars

\* Both queues are full and each has refused an item; the producers are past
\* the refused put.
C26_Witness ==
    /\ Len(data_queue) = QueueCapacity /\ Len(signal_queue) = QueueCapacity
    /\ {"Data queue full", "Signal queue full"} \subseteq warnings
    /\ pc["Data"] = "fetch"
    /\ pc["Signal"] = "get"

-----------------------------------------------------------------------------
(***************************************************************************)
(* C27                                                                     *)
(***************************************************************************)

\* The execution thread is in an action; the signal thread is in its evaluation
\* pass; the monitor thread is in its status pass.
InAction == pc["Execution"] \in {"action", "broker", "update", "release"}
Evaluating == pc["Signal"] \in {"evaluate", "put"}
InStatusPass == pc["Monitor"] = "status"
SetupStateChanges == broker_orders' # broker_orders \/ setup_updates' # setup_updates

\* C27: the state of the setups changes only in steps of the execution thread,
\* made while it holds the lock; it holds the lock from the start of an action,
\* through the broker call, to the end of the data-model update, and meanwhile
\* neither the evaluation pass of the signal thread nor the status pass of the
\* monitor thread is under way.
C27_ActionsUnderLockInExecutionThread ==
    /\ [](InAction => (lock = "Execution" /\ ~Evaluating /\ ~InStatusPass))
    /\ [][SetupStateChanges =>
              /\ lock = "Execution" /\ InAction
              /\ \A t \in Threads \ {"Execution"} : pc'[t] = pc[t]]_vars

\* An action is half applied (order filled, data model not yet updated) while
\* the signal thread, holding the next snapshot, and the monitor thread wait for
\* the lock.
C27_Witness ==
    /\ pc["Execution"] = "update"
    /\ broker_orders = 1 /\ setup_updates = 0
    /\ pc["Signal"] = "lock"
    /\ pc["Monitor"] = "lock"

-----------------------------------------------------------------------------
(***************************************************************************)
(* C28                                                                     *)
(***************************************************************************)

\* Where a thread is inside its "with self.lock" block.
InLockBlock(t) ==
    CASE t = "Signal" -> pc[t] \in {"evaluate", "put"}
      [] t = "Execution" -> pc[t] \in {"action", "broker", "update", "release"}
      [] t = "Monitor" -> pc[t] = "status"
      [] OTHER -> FALSE

\* C28: an exception raised inside an iteration of a worker loop is caught at the
\* loop: the thread does not keep the lock, it goes from the handler to the top
\* of its loop and from there, the running flag set, into the next iteration; no
\* thread has left its loop while the flag is set.
C28_ExceptionCaughtAtLoop ==
    /\ [](\A t \in Threads : lock = t => InLockBlock(t))
    /\ [](\A t \in Threads : pc[t] = "done" => ~running)
    /\ [][\A t \in Threads :
              /\ (pc[t] = "except" /\ pc'[t] # "except") => pc'[t] = "loop"
              /\ (pc[t] = "loop" /\ pc'[t] # "loop" /\ running) => pc'[t] # "done"]_vars

\* Every thread has raised in some iteration; the flag is set, the execution
\* thread is applying a later action under the lock, and the other threads are
\* in later iterations of their loops.
C28_Witness ==
    /\ raised = Threads
    /\ running
    /\ pc["Execution"] = "update" /\ lock = "Execution"
    /\ pc["Signal"] = "get"
    /\ pc["Data"] = "fetch"
    /\ pc["Monitor"] = "lock"

-----------------------------------------------------------------------------
(***************************************************************************)
(* C29                                                                     *)
(***************************************************************************)

AllDone == \A t \in Threads : pc[t] = "done"

\* C29: once stop() has cleared the running flag it stays cleared, a worker at
\* the top of its loop leaves the loop, so that it finishes at most the iteration
\* it was in, a worker that has left does nothing more, and with broker calls
\* returning all four workers end.
C29_WorkersStopAfterCurrentIteration ==
    /\ [][~running => ~running']_vars
    /\ [][\A t \in Threads :
              /\ (~running /\ pc[t] = "loop" /\ pc'[t] # "loop") => pc'[t] = "done"
              /\ pc[t] = "done" => pc'[t] = "done"]_vars
    /\ (~running ~> AllDone)

\* All workers have ended after stop(); an action had been carried out and a
\* request was left in the queue.
C29_Witness ==
    /\ ~running
    /\ AllDone
    /\ lock = "none"
    /\ setup_updates > 0
    /\ signal_queue # <<>>
-----------------------------------------------------------------------------
(***************************************************************************)
(* C31                                                                     *)
(***************************************************************************)

\* The last place_market_order call returned success.
MarketOrderFilled == MarketOrdered /\ order_call.result.success

\* C31: place_market_order sends at most one order request, for the symbol it
\* was given; a successful call has sent exactly one, and the broker holds
\* exactly one position more than before the call.
C31_MarketOrderIsSingleLeg ==
    /\ [](MarketOrdered =>
              /\ Len(requests) <= 1
              /\ \A i \in DOMAIN requests : requests[i].symbol = order_call.symbol
              /\ order_call.result.success => Len(requests) = 1)
    /\ [][(MarketOrderFilled' /\ order_call' # order_call) =>
              Cardinality(used_tickets') = Cardinality(used_tickets) + 1]_vars

\* A single order on the secondary symbol was filled while a position was open
\* already.
C31_Witness ==
    /\ MarketOrderFilled
    /\ order_call.symbol = SECONDARY
    /\ Len(requests) = 1
    /\ requests[1].symbol = SECONDARY
    /\ Cardinality(used_tickets) = 2
-----------------------------------------------------------------------------
(***************************************************************************)
(* C32                                                                     *)
(***************************************************************************)

\* The entry z-score of the setup lies beyond the stop.
EntryBeyondStop(position) == Abs(position.entry_zscore) > cfg.max_zscore
\* The executed entry level followed by the unexecuted stop level.
EntryThenStop(position) ==
    /\ Len(position.levels) = 2
    /\ position.levels[1].zscore = position.entry_zscore
    /\ position.levels[1].executed
    /\ position.levels[2].zscore =
           (IF position.side = "LONG" THEN -cfg.max_zscore ELSE cfg.max_zscore)
    /\ ~position.levels[2].executed

\* C32: a setup whose entry z-score exceeds max_zscore in magnitude has a ladder
\* of exactly two levels, the executed entry level followed by the unexecuted
\* stop level, so that the only level check_pyramiding can return is the stop.
C32_EntryBeyondStopHasEntryAndStop ==
    \A id \in DOMAIN active_positions :
        EntryBeyondStop(active_positions[id]) =>
            /\ EntryThenStop(active_positions[id])
            /\ \A z \in {-cfg.max_zscore, cfg.max_zscore} :
                   FirstTriggered(active_positions[id].levels,
                                  active_positions[id].side, z) \in {0, 2}
-----------------------------------------------------------------------------
(***************************************************************************)
(* C33                                                                     *)
(***************************************************************************)

\* The levels of a ladder whose trigger is within the tolerance of zscore.
WithinTolerance(levels, zscore) ==
    {i \in DOMAIN levels : Abs(levels[i].zscore - zscore) < ZTolerance}
\* after is before with the first level within the tolerance of the fill's
\* z-score marked executed with the fill's lots and every other level as it was;
\* with no level within the tolerance, after is before.
FillRecorded(before, after, fill) ==
    LET near == WithinTolerance(before, fill.zscore)
    IN  /\ DOMAIN after = DOMAIN before
        /\ \A i \in DOMAIN before :
               IF i \in near /\ \A j \in near : i <= j
               THEN /\ after[i].executed
                    /\ after[i].zscore = before[i].zscore
                    /\ after[i].gold_lots = fill.gold_lots
                    /\ after[i].silver_lots = fill.silver_lots
               ELSE after[i] = before[i]
\* This step is mark_pyramiding_executed / mark_level_executed on a registered
\* setup.
PyramidingMarked ==
    /\ last_call'.op = "mark_pyramiding_executed"
    /\ last_call'.spread_id \in DOMAIN active_positions
    /\ (last_call' # last_call \/ active_positions' # active_positions)
LevelMarked ==
    /\ rb_last_call'.op = "mark_level_executed"
    /\ rb_last_call'.spread_id \in DOMAIN rb_active_positions
    /\ (rb_last_call' # rb_last_call \/ rb_active_positions' # rb_active_positions)

\* C33: mark_pyramiding_executed and mark_level_executed mark as executed, with
\* the lots of the fill, the first level of the ladder whose trigger z-score is
\* within 0.01 of the z-score given, and leave every other level as it was; when
\* no level is within the tolerance no level changes.
C33_MarkExecutedFirstLevelInTolerance ==
    /\ [][PyramidingMarked =>
              FillRecorded(active_positions[last_call'.spread_id].levels,
                           active_positions'[last_call'.spread_id].levels,
                           last_call')]_vars
    /\ [][LevelMarked =>
              FillRecorded(rb_active_positions[rb_last_call'.spread_id].levels,
                           rb_active_positions'[rb_last_call'.spread_id].levels,
                           rb_last_call')]_vars

\* A fill at -3.005, where the ladder has a level at -3.0 and the stop at
\* -3.005, was recorded on the level at -3.0; the stop level is untouched.  On
\* the other rebalancer a fill at -2.495 was recorded on the level at -2.5.
C33_Witness ==
    /\ last_call.op = "mark_pyramiding_executed"
    /\ last_call.zscore = -601
    /\ last_call.spread_id \in DOMAIN active_positions
    /\ LET levels == active_positions[last_call.spread_id].levels
       IN  /\ Len(levels) = 4
           /\ levels[3].zscore = -600 /\ levels[3].executed
           /\ levels[3].gold_lots = 2 /\ levels[3].silver_lots = 3
           /\ levels[4].zscore = -601 /\ ~levels[4].executed
    /\ rb_last_call.op = "mark_level_executed"
    /\ rb_last_call.zscore = -499
    /\ "s1" \in DOMAIN rb_active_positions
    /\ rb_active_positions["s1"].levels[2].executed
    /\ rb_active_positions["s1"].levels[2].gold_lots = rb_last_call.gold_lots
-----------------------------------------------------------------------------
(***************************************************************************)
(* C37                                                                     *)
(***************************************************************************)

\* total_executed counts the levels marked executed.
CountsExecutedLevels(position) ==
    /\ position.total_executed = Cardinality(ExecutedLevels(position.levels))
    /\ position.total_executed <= Len(position.levels)

\* C37: for every registered setup total_executed equals the number of ladder
\* levels marked executed and never exceeds the number of levels, whatever
\* fills were reported: fills whose z-score matches no level and fills for a
\* level that is executed already included.
C37_TotalExecutedCountsLevels ==
    /\ \A id \in DOMAIN active_positions : CountsExecutedLevels(active_positions[id])
    /\ \A id \in DOMAIN rb_active_positions :
           CountsExecutedLevels(rb_active_positions[id])
-----------------------------------------------------------------------------
(***************************************************************************)
(* C34                                                                     *)
(***************************************************************************)

\* The scale-in orders of the execution thread that were filled, and the
\* scale-in requests waiting in the signal queue.
ScaleInsFilled == {i \in DOMAIN placed : placed[i].kind = "rebalance" /\ placed[i].filled}
ScaleInsQueued == {i \in DOMAIN signal_queue : signal_queue[i].kind = "rebalance"}
SameLevel(a, b) == a.spread_id = b.spread_id /\ a.zscore = b.zscore

-----------------------------------------------------------------------------
(***************************************************************************)
(* C38                                                                     *)
(***************************************************************************)

-----------------------------------------------------------------------------
(***************************************************************************)
(* C35                                                                     *)
(***************************************************************************)

\* The last call was mark_hedge_adjusted on a registered setup with the whole
\* quantity of the adjustment executed.
AppliedInFull ==
    /\ last_call.op = "mark_hedge_adjusted"
    /\ last_call.applied
    /\ RatEq(<<last_call.executed_quantity, 1>>, last_call.adjustment.quantity)
\* The setup has no drift at hedge ratio hr, and check_hedge_drift finds none
\* to adjust.
ZeroDrift(position, hr) ==
    /\ RatEq(<<position.silver_lots, 1>>, TargetSecondary(position, hr))
    /\ ~DualThreshold(DriftPct(position, hr), RatAbs(Drift(position, hr)))

\* C35: at a hedge ratio that stays as it is, an adjustment returned by
\* check_hedge_drift, executed in full and applied by mark_hedge_adjusted,
\* leaves the setup without drift (secondary lots = primary lots * hedge ratio),
\* so that the next check after the cooldown returns None and the cycles do not
\* go on adding to the position.
C35_FullAdjustmentEndsDrift ==
    AppliedInFull =>
        /\ last_call.spread_id \in DOMAIN active_positions
        /\ ZeroDrift(active_positions[last_call.spread_id],
                     last_call.adjustment.new_hedge)
-----------------------------------------------------------------------------
(***************************************************************************)
(* C39                                                                     *)
(***************************************************************************)

\* C39: every adjustment check_hedge_drift returns has a strictly positive
\* quantity, whatever the leg lots (from zero up), the thresholds (zero
\* included) and the current hedge ratio (negative values included).
C39_AdjustmentQuantityPositive ==
    (last_call.op = "check_hedge_drift" /\ last_call.result # NoAdjustment) =>
        RatSign(last_call.result.quantity) > 0

-----------------------------------------------------------------------------
(***************************************************************************)
(* C36                                                                     *)
(***************************************************************************)

\* The setup is held by the store with status ACTIVE when the run is over.
StillActive(setup_id) ==
    /\ setup_id \in DOMAIN setup_call.after.active
    /\ setup_call.after.active[setup_id].status = "ACTIVE"

\* C36: when recover_or_close_all returns, every setup the store still holds as
\* ACTIVE is in the returned list; a setup for which close-all was chosen is
\* closed in the store or returned, never ACTIVE in the store and missing from
\* the result.
C36_ActiveSetupsAreReturned ==
    ReconciledAndReturned =>
        \A setup_id \in DOMAIN setup_call.before :
            StillActive(setup_id) => InResult(setup_id)

-----------------------------------------------------------------------------
(***************************************************************************)
(* C40                                                                     *)
(***************************************************************************)

ReadOnlyChecks == {"check_pyramiding", "check_hedge_drift", "check_all_rebalancing"}
\* The level the pyramiding action names, as the ladder holds it now.
LevelOnLadder(pyramid_action) ==
    active_positions[pyramid_action.spread_id].levels[pyramid_action.index]

\* C40: check_hedge_drift, check_pyramiding and check_all_rebalancing are
\* read-only: whatever the inputs, a call changes no ladder level, lot total,
\* hedge ratio, cooldown timestamp, adjustment-history entry, setting or
\* registered setup.
C40_ChecksAreReadOnly ==
    [][last_call'.op \in ReadOnlyChecks =>
           UNCHANGED <<cfg, active_positions, last_adjustment, adjustment_history>>]_vars

\* check_all_rebalancing has returned a pyramiding action and a hedge adjustment
\* after a level was filled: the level returned is still open on the ladder, the
\* lots are those of the adjustment's drift, and no adjustment is on record.
C40_Witness ==
    /\ last_call.op = "check_all_rebalancing"
    /\ last_call.pyramiding_actions # <<>>
    /\ last_call.hedge_adjustments # <<>>
    /\ \A i \in 1 .. Len(last_call.pyramiding_actions) :
           /\ ~LevelOnLadder(last_call.pyramiding_actions[i]).executed
           /\ LevelOnLadder(last_call.pyramiding_actions[i])
                  = last_call.pyramiding_actions[i].level
    /\ \E id \in DOMAIN active_positions : active_positions[id].total_executed > 1
    /\ adjustment_history = <<>>
=============================================================================
